---------------------------- MODULE Spec2Model ----------------------------
(***************************************************************************)
(* A model of the scalar BVH engine: the binned-SAH builder, the PLOC      *)
(* builder, the slab test, the Moeller-Trumbore triangle test and the      *)
(* stack traversal.                                                        *)
(*                                                                         *)
(* Numbers.  A C++ float is modelled as an exact rational together with    *)
(* the IEEE special values the code produces: +-numeric_limits<float>::    *)
(* max() (kind "max"), +-infinity (kind "inf") and NaN (kind "nan").       *)
(* Rounding of finite results is not modelled; overflow, inf - inf,        *)
(* 0 * inf, x / 0 and the unordered comparisons of NaN are.  The zero of   *)
(* the model is the positive zero.  The rational operations divide by      *)
(* common factors before they multiply, which keeps the integers small.    *)
(***************************************************************************)
EXTENDS Integers, Sequences, FiniteSets, TLC

---------------------------------------------------------------------------
(* Bounds of the model *)

\* Largest number of primitives handed to Bvh::build.
MaxPrims == 9

\* One larger soup, on which the SAH builder splits a child of the root
DeepPrims == 17

\* Largest number of primitives of a scene that is handed to both programs
PairPrims == 4

---------------------------------------------------------------------------
(* float *)

Abs(i) == IF i < 0 THEN -i ELSE i

Sgn(i) == IF i < 0 THEN -1 ELSE IF i > 0 THEN 1 ELSE 0

RECURSIVE GCD(_, _)
GCD(a, b) == IF b = 0 THEN a ELSE GCD(b, a % b)

\* The finite float n/d, in lowest terms with a positive denominator.
Rat(n, d) ==
    LET s == IF d < 0 THEN -1 ELSE 1
        g == GCD(Abs(n), Abs(d))
    IN  [k |-> "fin", n |-> (s * n) \div g, d |-> (s * d) \div g]

F(i) == [k |-> "fin", n |-> i, d |-> 1]

\* +-std::numeric_limits<float>::max()
FltMax(s) == [k |-> "max", n |-> s, d |-> 1]

FInf(s) == [k |-> "inf", n |-> s, d |-> 1]

NaN == [k |-> "nan", n |-> 0, d |-> 1]

\* std::numeric_limits<float>::epsilon() is 2^-23; its inverse is exact.
InvEpsilon == 8388608

Epsilon == Rat(1, InvEpsilon)

IsNaN(a) == a.k = "nan"

IsFin(a) == a.k = "fin"

FSign(a) == Sgn(a.n)

\* Position of a non-NaN float among the magnitude classes
\* -inf < -max < finite < +max < +inf.
FRank(a) == IF a.k = "inf" THEN 2 * a.n ELSE IF a.k = "max" THEN a.n ELSE 0

\* a < b, false when either operand is NaN
FLt(a, b) ==
    /\ ~IsNaN(a)
    /\ ~IsNaN(b)
    /\ \/ FRank(a) < FRank(b)
       \/ /\ IsFin(a)
          /\ IsFin(b)
          /\ a.n * (b.d \div GCD(a.d, b.d)) < b.n * (a.d \div GCD(a.d, b.d))

\* a == b, false when either operand is NaN
FEq(a, b) == ~IsNaN(a) /\ ~IsNaN(b) /\ a = b

FLe(a, b) == FLt(a, b) \/ FEq(a, b)

FGt(a, b) == FLt(b, a)

FGe(a, b) == FLe(b, a)

FNeg(a) == IF IsNaN(a) THEN NaN ELSE [a EXCEPT !.n = -a.n]

\* a + b.  max + max overflows to infinity; max + finite rounds back to max
\* (the finite operands of the model are far below half an ulp of max).
FAdd(a, b) ==
    IF IsNaN(a) \/ IsNaN(b) THEN NaN
    ELSE IF a.k = "inf" \/ b.k = "inf" THEN
        IF a.k = "inf" /\ b.k = "inf" /\ a.n # b.n THEN NaN
        ELSE IF a.k = "inf" THEN a ELSE b
    ELSE IF a.k = "max" /\ b.k = "max" THEN
        IF a.n = b.n THEN FInf(a.n) ELSE F(0)
    ELSE IF a.k = "max" THEN a
    ELSE IF b.k = "max" THEN b
    ELSE Rat(a.n * (b.d \div GCD(a.d, b.d)) + b.n * (a.d \div GCD(a.d, b.d)),
             (a.d \div GCD(a.d, b.d)) * b.d)

FSub(a, b) == FAdd(a, FNeg(b))

\* a * b.  max * r is max for |r| = 1, overflows for |r| > 1; for 0 < |r| < 1
\* the product is a finite value of huge magnitude, kept in the class "max".
FMul(a, b) ==
    IF IsNaN(a) \/ IsNaN(b) THEN NaN
    ELSE IF a.k = "inf" \/ b.k = "inf" THEN
        IF FSign(a) * FSign(b) = 0 THEN NaN ELSE FInf(FSign(a) * FSign(b))
    ELSE IF FSign(a) * FSign(b) = 0 THEN F(0)
    ELSE IF a.k = "max" /\ b.k = "max" THEN FInf(FSign(a) * FSign(b))
    ELSE IF a.k = "max" THEN
        IF Abs(b.n) > b.d THEN FInf(FSign(a) * FSign(b)) ELSE FltMax(FSign(a) * FSign(b))
    ELSE IF b.k = "max" THEN
        IF Abs(a.n) > a.d THEN FInf(FSign(a) * FSign(b)) ELSE FltMax(FSign(a) * FSign(b))
    ELSE Rat((a.n \div GCD(Abs(a.n), b.d)) * (b.n \div GCD(Abs(b.n), a.d)),
             (a.d \div GCD(Abs(b.n), a.d)) * (b.d \div GCD(Abs(a.n), b.d)))

\* a / b.  x / 0 is +-inf (NaN for 0 / 0), x / inf is 0, finite / max
\* underflows to 0.
FDiv(a, b) ==
    IF IsNaN(a) \/ IsNaN(b) THEN NaN
    ELSE IF b.k = "inf" THEN
        IF a.k = "inf" THEN NaN ELSE F(0)
    ELSE IF a.k = "inf" THEN FInf(a.n * (IF FSign(b) < 0 THEN -1 ELSE 1))
    ELSE IF FSign(b) = 0 THEN
        IF FSign(a) = 0 THEN NaN ELSE FInf(FSign(a))
    ELSE IF FSign(a) = 0 THEN F(0)
    ELSE IF a.k = "max" /\ b.k = "max" THEN F(FSign(a) * FSign(b))
    ELSE IF a.k = "max" THEN
        IF Abs(b.n) < b.d THEN FInf(FSign(a) * FSign(b)) ELSE FltMax(FSign(a) * FSign(b))
    ELSE IF b.k = "max" THEN F(0)
    ELSE Rat((a.n \div GCD(Abs(a.n), Abs(b.n))) * (b.d \div GCD(a.d, b.d)),
             (a.d \div GCD(a.d, b.d)) * (b.n \div GCD(Abs(a.n), Abs(b.n))))

\* std::min(a, b): b when b < a, else a
StdMin(a, b) == IF FLt(b, a) THEN b ELSE a

\* std::max(a, b): b when a < b, else a
StdMax(a, b) == IF FLt(a, b) THEN b ELSE a

\* std::fabs
FAbs(a) == IF IsNaN(a) THEN NaN ELSE [a EXCEPT !.n = Abs(a.n)]

\* std::copysign(m, x), for a non-NaN x
CopySign(m, x) == IF FSign(x) < 0 THEN FNeg(FAbs(m)) ELSE FAbs(m)

\* conversion of a float in the range of the target integer type: truncation
Trunc(a) == Sgn(a.n) * (Abs(a.n) \div a.d)


---------------------------------------------------------------------------
(* Loops.  The loops of the code are recursive operators: the state after n  *)
(* rounds is one round applied to the state after n - 1 rounds, written      *)
(*     CHOOSE r \in {Round(st, n - 1) : st \in {Loop(n - 1)}} : TRUE         *)
(* which is LET st == Loop(n - 1) IN Round(st, n - 1) with st evaluated      *)
(* before the round is, so that the rounds are not evaluated inside one      *)
(* another.                                                                  *)

---------------------------------------------------------------------------
(* Vec3: a triple of floats; axis a of the code is component a + 1 *)

Vec3(x, y, z) == <<x, y, z>>

\* explicit Vec3(float x)
Vec3All(x) == <<x, x, x>>

VAdd(a, b) == <<FAdd(a[1], b[1]), FAdd(a[2], b[2]), FAdd(a[3], b[3])>>

VSub(a, b) == <<FSub(a[1], b[1]), FSub(a[2], b[2]), FSub(a[3], b[3])>>

VMul(a, b) == <<FMul(a[1], b[1]), FMul(a[2], b[2]), FMul(a[3], b[3])>>

VScale(a, s) == <<FMul(a[1], s), FMul(a[2], s), FMul(a[3], s)>>

VDiv(a, b) == <<FDiv(a[1], b[1]), FDiv(a[2], b[2]), FDiv(a[3], b[3])>>

VMin(a, b) == <<StdMin(a[1], b[1]), StdMin(a[2], b[2]), StdMin(a[3], b[3])>>

VMax(a, b) == <<StdMax(a[1], b[1]), StdMax(a[2], b[2]), StdMax(a[3], b[3])>>

dot(a, b) == FAdd(FAdd(FMul(a[1], b[1]), FMul(a[2], b[2])), FMul(a[3], b[3]))

cross(a, b) ==
    Vec3(FSub(FMul(a[2], b[3]), FMul(a[3], b[2])),
         FSub(FMul(a[3], b[1]), FMul(a[1], b[3])),
         FSub(FMul(a[1], b[2]), FMul(a[2], b[1])))

---------------------------------------------------------------------------
(* BBox *)

BBox(lo, hi) == [min |-> lo, max |-> hi]

\* explicit BBox(const Vec3& point)
BBoxOfPoint(p) == BBox(p, p)

\* BBox::extend(const BBox&)
Extend(b, other) == BBox(VMin(b.min, other.min), VMax(b.max, other.max))

diagonal(b) == VSub(b.max, b.min)

\* BBox::largest_axis, given the diagonal d
LargestAxisOf(d) ==
    IF FLt(d[1], d[2])
    THEN IF FLt(d[2], d[3]) THEN 2 ELSE 1
    ELSE IF FLt(d[1], d[3]) THEN 2 ELSE 0

largest_axis(b) == LargestAxisOf(diagonal(b))

\* BBox::half_area, given the diagonal d
HalfAreaOf(d) == FAdd(FMul(FAdd(d[1], d[2]), d[3]), FMul(d[1], d[2]))

half_area(b) == HalfAreaOf(diagonal(b))

\* BBox::empty() of the PLOC program: min = +max, max = -max
BBoxEmptyPloc == BBox(Vec3All(FltMax(1)), Vec3All(FltMax(-1)))

\* BBox::empty() of the SAH program: min = -max, max = +max
BBoxEmptySah == BBox(Vec3All(FltMax(-1)), Vec3All(FltMax(1)))

\* componentwise containment a >= b of boxes (used by the properties only)
Contains(a, b) ==
    \A i \in 1..3 : FLe(a.min[i], b.min[i]) /\ FGe(a.max[i], b.max[i])

---------------------------------------------------------------------------
(* robust_min, robust_max, safe_inverse, Ray *)

\* robust_min written as std::min, which returns its first operand when that
\* is NaN
RobustMinStd(a, b) == IF FLt(b, a) THEN b ELSE a

robust_min(a, b) == IF FLt(a, b) THEN a ELSE b

robust_max(a, b) == IF FGt(a, b) THEN a ELSE b

safe_inverse(x) ==
    IF FLe(FAbs(x), Epsilon)
    THEN CopySign(FDiv(F(1), Epsilon), x)
    ELSE FDiv(F(1), x)

inv_dir(ray) ==
    Vec3(safe_inverse(ray.dir[1]), safe_inverse(ray.dir[2]), safe_inverse(ray.dir[3]))

---------------------------------------------------------------------------
(* Hit, Node *)

\* Hit::none(): static_cast<uint32_t>(-1), kept as its residue -1 modulo 2^32
HitNone == -1

Node(bbox, prim_count, first_index) ==
    [bbox |-> bbox, prim_count |-> prim_count, first_index |-> first_index]

\* The value-initialised Node that vector::resize creates
NodeZero == Node(BBox(Vec3All(F(0)), Vec3All(F(0))), 0, 0)

is_leaf(node) == node.prim_count # 0

\* Node::intersect, its return statement: tmin and tmax are the vectors
\* after the std::tie
SlabInterval(tmin, tmax, ray) ==
    [tmin |-> robust_max(tmin[1], robust_max(tmin[2], robust_max(tmin[3], ray.tmin))),
     tmax |-> robust_min(tmax[1], robust_min(tmax[2], robust_min(tmax[3], ray.tmax)))]

\* Node::intersect, the std::tie: tmin and tmax are the vectors before it
SlabOrder(tmin, tmax, ray) == SlabInterval(VMin(tmin, tmax), VMax(tmin, tmax), ray)

\* Node::intersect, given inv_dir
SlabsWith(node, ray, inv) ==
    SlabOrder(VMul(VSub(node.bbox.min, ray.org), inv),
              VMul(VSub(node.bbox.max, ray.org), inv), ray)

\* Node::intersect: the interval [tmin, tmax] of the slab test
NodeIntersect(node, ray) == SlabsWith(node, ray, inv_dir(ray))

\* Node::Intersection::operator bool
IntersectionHit(isect) == FLe(isect.tmin, isect.tmax)

---------------------------------------------------------------------------
(* Triangle *)

Triangle(p0, p1, p2) == [p0 |-> p0, p1 |-> p1, p2 |-> p2]

\* Triangle::intersect: u, v, w and t
TriangleUVWT(u, v, t) == [u |-> u, v |-> v, w |-> FSub(FSub(F(1), u), v), t |-> t]

\* Triangle::intersect, given the three dot products and inv_det
TriangleScaled(re2, re1, nc, inv_det) ==
    TriangleUVWT(FMul(re2, inv_det), FMul(re1, inv_det), FMul(nc, inv_det))

\* Triangle::intersect, given e1, e2, n, c and r
TriangleDots(e1, e2, n, c, r, dir) ==
    TriangleScaled(dot(r, e2), dot(r, e1), dot(n, c), FDiv(F(1), dot(n, dir)))

\* Triangle::intersect, given e1, e2 and c
TriangleCross(e1, e2, c, dir) == TriangleDots(e1, e2, cross(e1, e2), c, cross(dir, c), dir)

\* The values Triangle::intersect computes for its comparisons
TriangleTerms(tri, ray) ==
    TriangleCross(VSub(tri.p0, tri.p1), VSub(tri.p2, tri.p0), VSub(tri.p0, ray.org), ray.dir)

\* TriangleAccept whose comparisons are the negated opposite ones, which a
\* NaN passes
TriangleAcceptNaN(x, ray) ==
    IF /\ ~FLt(x.u, F(0))
       /\ ~FLt(x.v, F(0))
       /\ ~FLt(x.w, F(0))
       /\ ~FLt(x.t, ray.tmin)
       /\ ~FGt(x.t, ray.tmax)
    THEN [hit |-> TRUE, ray |-> [ray EXCEPT !.tmax = x.t]]
    ELSE [hit |-> FALSE, ray |-> ray]

\* TriangleAccept that stores t in ray.tmax before its comparisons
TriangleAcceptEarly(x, ray) ==
    [hit |-> /\ FGe(x.u, F(0))
             /\ FGe(x.v, F(0))
             /\ FGe(x.w, F(0))
             /\ FGe(x.t, ray.tmin)
             /\ FLe(x.t, ray.tmax),
     ray |-> [ray EXCEPT !.tmax = x.t]]

\* Triangle::intersect, its comparisons: the returned flag and the ray it
\* leaves behind
TriangleAccept(x, ray) ==
    IF /\ FGe(x.u, F(0))
       /\ FGe(x.v, F(0))
       /\ FGe(x.w, F(0))
       /\ FGe(x.t, ray.tmin)
       /\ FLe(x.t, ray.tmax)
    THEN [hit |-> TRUE, ray |-> [ray EXCEPT !.tmax = x.t]]
    ELSE [hit |-> FALSE, ray |-> ray]

TriangleIntersect(tri, ray) == TriangleAccept(TriangleTerms(tri, ray), ray)

\* main: the box and the centroid of a triangle
BBoxOfTriangle(tri) ==
    Extend(Extend(BBoxOfPoint(tri.p0), BBoxOfPoint(tri.p1)), BBoxOfPoint(tri.p2))

CenterOfTriangle(tri) ==
    VScale(VAdd(VAdd(tri.p0, tri.p1), tri.p2), FDiv(F(1), F(3)))

---------------------------------------------------------------------------
(* State *)

VARIABLES
    variant,          \* which program runs: "sah" or "ploc"
    tris,             \* the triangles main loaded (primitive p is tris[p + 1])
    pc,               \* position of the program
    nodes,            \* bvh.nodes (node i is nodes[i + 1])
    prim_indices,     \* bvh.prim_indices (entry k is prim_indices[k + 1])
    node_count,       \* SAH: the node counter of Bvh::build
    work,             \* SAH: node indices of the pending build_recursive calls
    mortons,          \* PLOC: the Morton code of each primitive
    current_nodes,    \* PLOC: the working sequence
    insertion_index,  \* PLOC: the insertion cursor
    ray,              \* the ray being traversed
    ray0,             \* the ray as handed to Bvh::traverse
    hit,              \* Bvh::traverse: hit.prim_index
    stack,            \* Bvh::traverse: the stack, top first
    pushed,           \* history: every index pushed by this traversal, in order
    popped,           \* history: every index popped by this traversal, in order
    other_run,        \* what an earlier run on this scene built and returned
    sort_calls,       \* history: the calls of std::sort, each <<input, output>>
    call,             \* a call of robust_min, robust_max or Node::intersect made
                      \* on its own: the operands and what it returned
    image             \* main: the three bytes of the pixel of the ray

vars ==
    <<image, call, other_run, sort_calls, variant, tris, pc, nodes, prim_indices, node_count, work, mortons,
      current_nodes, insertion_index, ray, ray0, hit, stack, pushed, popped>>

buildVars == <<nodes, prim_indices, node_count, work, mortons, current_nodes, insertion_index>>

travVars == <<ray, ray0, hit, stack, pushed, popped>>

\* prim_count as passed to Bvh::build by main
PrimCount == Len(tris)

\* main: the arrays handed to Bvh::build
bboxes == [i \in 1..Len(tris) |-> BBoxOfTriangle(tris[i])]

centers == [i \in 1..Len(tris) |-> CenterOfTriangle(tris[i])]

\* std::iota(begin, end, 0) on a vector of n entries
Iota(n) == [k \in 1..n |-> k - 1]

\* 2 * prim_count - 1 in size_t arithmetic: for prim_count = 0 it wraps to
\* SIZE_MAX, which is above vector::max_size(), and resize throws
\* std::length_error.
ResizeThrows(n) == 2 * n - 1 < 0

---------------------------------------------------------------------------
(* std::sort and std::partition: the order of equivalent elements is         *)
(* unspecified, so every order the comparator allows is an outcome.         *)

\* All sequences of the members of S in non-decreasing order of key
RECURSIVE SortedSeqs(_, _)
SortedSeqs(S, key) ==
    IF S = {} THEN {<<>>}
    ELSE LET least == {x \in S : \A y \in S : ~FLt(key[y], key[x])}
         IN  UNION {{<<x>> \o t : t \in SortedSeqs(S \ {x}, key)} : x \in least}

\* The positions of the range [first, first + count)
Range(first, count) == first..(first + count - 1)

\* Rearranged with a lost element: every entry of the range receives the
\* entry that belongs at its start
RearrangedDup(seq, first, order) ==
    [k \in 1..Len(seq) |->
        IF k > first /\ k <= first + Len(order) THEN seq[order[1] + 1] ELSE seq[k]]

\* seq with the entries [first, first + Len(order)) replaced by the entries
\* of seq at the positions order lists
Rearranged(seq, first, order) ==
    [k \in 1..Len(seq) |->
        IF k > first /\ k <= first + Len(order) THEN seq[order[k - first] + 1] ELSE seq[k]]

\* std::sort of the range [first, first + count) of seq; key maps an entry
\* to what the comparator compares
StdSortRange(seq, first, count, key) ==
    LET keyAt == [k \in Range(first, count) |-> key[seq[k + 1]]]
    IN  {Rearranged(seq, first, order) : order \in SortedSeqs(Range(first, count), keyAt)}

\* What a call of std::sort is given: the entries of the range in their
\* order, each with what the comparator compares
SortInput(seq, first, count, key) ==
    [k \in 1..count |-> <<seq[first + k], key[seq[first + k]]>>]

\* One call of std::sort as the history keeps it
SortCall(seq, first, count, key, out) ==
    <<SortInput(seq, first, count, key), SubSeq(out, first + 1, first + count)>>

\* StdSort that may order equivalent entries differently from call to call
StdSortAny(calls, seq, first, count, key) == StdSortRange(seq, first, count, key)

\* std::sort is an algorithm: which of the orders the comparator allows it
\* leaves is unspecified, but a call given what an earlier call was given
\* leaves what that call left
StdSort(calls, seq, first, count, key) ==
    {out \in StdSortRange(seq, first, count, key) :
        \A c \in calls :
            c[1] = SortInput(seq, first, count, key) =>
                c[2] = SubSeq(out, first + 1, first + count)}

\* std::partition of the range by the predicate "the entry is in L": the
\* entries in L first, in any order, then the others, in any order
StdPartitionRange(seq, first, count, L) ==
    LET flat == [k \in Range(first, count) |-> F(0)]
        inL  == {k \in Range(first, count) : seq[k + 1] \in L}
    IN  {Rearranged(seq, first, l \o r) :
            l \in SortedSeqs(inL, flat), r \in SortedSeqs(Range(first, count) \ inL, flat)}

---------------------------------------------------------------------------
(* The binned SAH builder *)

min_prims == 2

max_prims == 8

traversal_cost == 1

bin_count == 16

\* The float the code converts to int in bin_index
BinIndexValue(axis, bbox, center) ==
    FMul(FSub(center[axis + 1], bbox.min[axis + 1]),
         FDiv(F(bin_count), FSub(bbox.max[axis + 1], bbox.min[axis + 1])))

\* The conversion float -> int is undefined for NaN, an infinity or a value
\* outside the range of int
BinIndexUndefined(axis, bbox, center) == ~IsFin(BinIndexValue(axis, bbox, center))

StdMinInt(a, b) == IF b < a THEN b ELSE a

StdMaxInt(a, b) == IF a < b THEN b ELSE a

bin_index(axis, bbox, center) ==
    StdMinInt(bin_count - 1, StdMaxInt(0, Trunc(BinIndexValue(axis, bbox, center))))

\* struct Bin
Bin(bbox, prim_count) == [bbox |-> bbox, prim_count |-> prim_count]

BinInit == Bin(BBoxEmptySah, 0)

BinExtend(b, other) == Bin(Extend(b.bbox, other.bbox), b.prim_count + other.prim_count)

BinCost(b) == FMul(half_area(b.bbox), F(b.prim_count))

\* struct Split
Split(axis, cost, right_bin) == [axis |-> axis, cost |-> cost, right_bin |-> right_bin]

SplitInit(axis) == Split(axis, FltMax(1), 0)

\* Split::operator bool
SplitValid(s) == s.right_bin # 0

\* Split::operator <
SplitLess(a, b) == SplitValid(a) /\ FLt(a.cost, b.cost)

\* std::min(a, b) on Split that returns b when neither is less
SplitMinLast(a, b) == IF SplitLess(a, b) THEN a ELSE b

\* std::min(a, b) on Split
SplitMin(a, b) == IF SplitLess(b, a) THEN b ELSE a

\* The primitive find_best_split and the box loop of build_recursive read
\* at step i of a node: bvh.prim_indices[i]
NodePrimRead(pi, node, i) == pi[i + 1]

\* find_best_split, first loop, one round: the box goes to bin b
BinAddAt(bins, b, box) ==
    [bins EXCEPT ![b] = Bin(Extend(bins[b].bbox, box), bins[b].prim_count + 1)]

\* find_best_split, first loop, one round: primitive p goes to its bin
BinAdd(axis, node, bins, p) ==
    BinAddAt(bins, bin_index(axis, node.bbox, centers[p + 1]), bboxes[p + 1])

\* find_best_split, first loop: the bins after the first n primitives
RECURSIVE FillBins(_, _, _, _)
FillBins(axis, pi, node, n) ==
    IF n = 0 THEN [b \in 0..(bin_count - 1) |-> BinInit]
    ELSE CHOOSE r \in {BinAdd(axis, node, bins, NodePrimRead(pi, node, n - 1)) :
                          bins \in {FillBins(axis, pi, node, n - 1)}} : TRUE

\* find_best_split, second loop: right_accum after bins bin_count-1 .. i
RECURSIVE RightAccum(_, _)
RightAccum(bins, i) ==
    IF i > bin_count - 1 THEN BinInit
    ELSE CHOOSE r \in {BinExtend(acc, bins[i]) : acc \in {RightAccum(bins, i + 1)}} : TRUE

\* find_best_split, third loop: left_accum after bins 0 .. i
RECURSIVE LeftAccum(_, _)
LeftAccum(bins, i) ==
    IF i < 0 THEN BinInit
    ELSE CHOOSE r \in {BinExtend(acc, bins[i]) : acc \in {LeftAccum(bins, i - 1)}} : TRUE

\* find_best_split, third loop, round i: the comparison
SweepCompare(axis, prev, cost, i) ==
    IF FLt(cost, prev.cost) THEN Split(axis, cost, i + 1) ELSE prev

\* find_best_split, third loop, round i
SweepRound(axis, bins, prev, i) ==
    SweepCompare(axis, prev,
                 FAdd(BinCost(LeftAccum(bins, i)), BinCost(RightAccum(bins, i + 1))), i)

\* find_best_split, third loop: the split after rounds 0 .. i
RECURSIVE SweepSplit(_, _, _)
SweepSplit(axis, bins, i) ==
    IF i < 0 THEN SplitInit(axis)
    ELSE CHOOSE r \in {SweepRound(axis, bins, prev, i) :
                          prev \in {SweepSplit(axis, bins, i - 1)}} : TRUE

find_best_split(axis, pi, node) ==
    CHOOSE r \in {SweepSplit(axis, bins, bin_count - 2) :
                     bins \in {FillBins(axis, pi, node, node.prim_count)}} : TRUE

\* build_recursive: the box loop, after the first n primitives
RECURSIVE NodeBBox(_, _, _)
NodeBBox(pi, node, n) ==
    IF n = 0 THEN BBoxEmptySah
    ELSE CHOOSE r \in {Extend(acc, bboxes[NodePrimRead(pi, node, n - 1) + 1]) :
                          acc \in {NodeBBox(pi, node, n - 1)}} : TRUE

\* build_recursive: min_split after the three axes
MinSplit(pi, node) ==
    SplitMin(SplitMin(SplitMin(SplitInit(0), find_best_split(0, pi, node)),
                      find_best_split(1, pi, node)),
             find_best_split(2, pi, node))

LeafCost(node) == FMul(half_area(node.bbox), FSub(F(node.prim_count), F(traversal_cost)))

---------------------------------------------------------------------------
(* Inputs: the triangle soups and the rays the model runs the programs on *)

\* The right triangle with its right angle at (x, y, z) and legs of length s
\* in the plane z
RightTri(x, y, z, s) ==
    Triangle(Vec3(F(x), F(y), F(z)), Vec3(F(x + s), F(y), F(z)), Vec3(F(x), F(y + s), F(z)))

\* The triangle in the plane x with its right angle at (x, 0, 0) and legs of
\* length 2 along y and z
WallTri(x) ==
    Triangle(Vec3(F(x), F(0), F(0)), Vec3(F(x), F(2), F(0)), Vec3(F(x), F(0), F(2)))

\* The triangle in the plane x whose vertices lie numeric_limits<float>::max()
\* away from the x axis: its box has an infinite half area
HugeTri(x) ==
    Triangle(Vec3(F(x), FltMax(-1), FltMax(-1)), Vec3(F(x), FltMax(1), F(0)),
             Vec3(F(x), F(0), FltMax(1)))

Patterns == {"row", "rowrev", "stack", "twin", "scatter", "wall", "huge"}

\* Primitive i of a soup
PatternTri(p, i) ==
    CASE p = "row"     -> RightTri(i, 0, 0, 1)
      [] p = "rowrev"  -> RightTri(0 - i, 0, 0, 1)
      [] p = "stack"   -> IF i = 1 THEN RightTri(0, 0, -1, 1) ELSE RightTri(i, 0, 0, 1)
      [] p = "twin"    -> IF i = 1 THEN RightTri(0, 0, 0, 1) ELSE RightTri(i, 0, 0, 1)
      [] p = "scatter" -> RightTri(i, (2 * i) % 5, 0 - (i % 3), 1 + (i % 2))
      [] p = "wall"    -> WallTri(16 + i)
      [] p = "huge"    -> HugeTri(i)

Soup(p, n) == [i \in 1..n |-> PatternTri(p, i - 1)]

Ray(org, dir, tmin, tmax) == [org |-> org, dir |-> dir, tmin |-> tmin, tmax |-> tmax]

RayOrigins ==
    {<<Vec3(Rat(1, 4), Rat(1, 4), F(2)), Vec3(F(0), F(0), F(-1))>>,
     <<Vec3(Rat(13, 4), Rat(1, 4), F(2)), Vec3(F(0), F(0), F(-1))>>,
     <<Vec3(Rat(1, 4), Rat(1, 4), F(-5)), Vec3(F(0), F(0), F(1))>>,
     <<Vec3(F(-1), Rat(1, 4), F(0)), Vec3(F(1), F(0), F(0))>>,
     <<Vec3(Rat(-7, 4), Rat(1, 4), F(2)), Vec3(F(1), F(0), F(-1))>>,
     <<Vec3(F(50), F(50), F(2)), Vec3(F(0), F(0), F(-1))>>,
     <<Vec3(F(0), F(0), Rat(2097151, 1048576)), Vec3(F(1), F(0), F(0))>>}

\* main casts rays with tmin = 0 and tmax = numeric_limits<float>::max();
\* a caller may clamp tmax
Rays == {Ray(od[1], od[2], F(0), tmax) : od \in RayOrigins, tmax \in {FltMax(1), Rat(5, 2), Rat(3, 2)}}

NoRay == Ray(Vec3All(F(0)), Vec3All(F(0)), F(0), F(0))

\* What a run of a program leaves: the BVH it built, the ray it was given,
\* hit.prim_index and the ray.tmax it returned with
Run(v, ns, pi, r0, h, tmax) ==
    [variant |-> v, nodes |-> ns, prim_indices |-> pi, ray0 |-> r0, hit |-> h, tmax |-> tmax]

\* No program has run before this one
NoRun == Run("none", <<>>, <<>>, NoRay, HitNone, F(0))

\* The operands and the results of a call made on its own
Call(a, b, rmin, rmax, isect) ==
    [a |-> a, b |-> b, rmin |-> rmin, rmax |-> rmax, isect |-> isect]

\* No call was made on its own
NoCall == Call(F(0), F(0), F(0), F(0), [tmin |-> F(0), tmax |-> F(0)])

---------------------------------------------------------------------------
(* Init *)

Init ==
    /\ variant \in {"sah", "ploc"}
    /\ \E n \in (0..MaxPrims) \cup {DeepPrims}, p \in Patterns : tris = Soup(p, n)
    /\ pc = "start"
    /\ nodes = <<>>
    /\ prim_indices = <<>>
    /\ node_count = 0
    /\ work = <<>>
    /\ mortons = <<>>
    /\ current_nodes = <<>>
    /\ insertion_index = 0
    /\ ray = NoRay
    /\ ray0 = NoRay
    /\ hit = HitNone
    /\ stack = <<>>
    /\ pushed = <<>>
    /\ popped = <<>>
    /\ other_run = NoRun
    /\ sort_calls = {}
    /\ call = NoCall
    /\ image = <<0, 0, 0>>

---------------------------------------------------------------------------
(* Bvh::build of the SAH program *)

\* SahBuildStart that reserves prim_count slots
SahBuildStartShort ==
    /\ pc = "start"
    /\ variant = "sah"
    /\ prim_indices' = Iota(PrimCount)
    /\ IF ResizeThrows(PrimCount)
       THEN /\ pc' = "threw"
            /\ UNCHANGED <<nodes, node_count, work>>
       ELSE /\ nodes' = [i \in 1..PrimCount |->
                            IF i = 1 THEN Node(NodeZero.bbox, PrimCount, 0) ELSE NodeZero]
            /\ node_count' = 1
            /\ work' = <<0>>
            /\ pc' = "sah_build"
    /\ UNCHANGED <<image, call, other_run, sort_calls, variant, tris, mortons, current_nodes, insertion_index>>
    /\ UNCHANGED travVars

\* Bvh::build up to the first call of build_recursive
SahBuildStart ==
    /\ pc = "start"
    /\ variant = "sah"
    /\ prim_indices' = Iota(PrimCount)
    /\ IF ResizeThrows(PrimCount)
       THEN /\ pc' = "threw"
            /\ UNCHANGED <<nodes, node_count, work>>
       ELSE /\ nodes' = [i \in 1..(2 * PrimCount - 1) |->
                            IF i = 1 THEN Node(NodeZero.bbox, PrimCount, 0) ELSE NodeZero]
            /\ node_count' = 1
            /\ work' = <<0>>
            /\ pc' = "sah_build"
    /\ UNCHANGED <<image, call, other_run, sort_calls, variant, tris, mortons, current_nodes, insertion_index>>
    /\ UNCHANGED travVars

\* SplitNode with a right child that is one primitive short
SplitNodeDrop(node_index, node, pi, first_right) ==
    IF node_count + 1 >= Len(nodes)
    THEN /\ pc' = "oob"
         /\ UNCHANGED <<nodes, prim_indices, node_count, work>>
    ELSE /\ nodes' = [nodes EXCEPT
                         ![node_index + 1] = Node(node.bbox, 0, node_count),
                         ![node_count + 1] = Node(nodes[node_count + 1].bbox,
                                                  first_right - node.first_index,
                                                  node.first_index),
                         ![node_count + 2] = Node(nodes[node_count + 2].bbox,
                                                  node.prim_count -
                                                      (first_right - node.first_index) - 1,
                                                  first_right)]
         /\ prim_indices' = pi
         /\ node_count' = node_count + 2
         /\ work' = <<node_count, node_count + 1>> \o Tail(work)
         /\ pc' = pc

\* build_recursive from line 301 on: the two children of the node and the
\* two recursive calls, the left one first
SplitNode(node_index, node, pi, first_right) ==
    LET first_child == node_count
    IN  IF first_child + 1 >= Len(nodes)
        THEN /\ pc' = "oob"
             /\ UNCHANGED <<nodes, prim_indices, node_count, work>>
        ELSE LET left  == [nodes[first_child + 1] EXCEPT
                              !.prim_count = first_right - node.first_index,
                              !.first_index = node.first_index]
                 right == [nodes[first_child + 2] EXCEPT
                              !.prim_count = node.prim_count - left.prim_count,
                              !.first_index = first_right]
             IN  /\ nodes' = [nodes EXCEPT
                                 ![node_index + 1] = Node(node.bbox, 0, first_child),
                                 ![first_child + 1] = left,
                                 ![first_child + 2] = right]
                 /\ prim_indices' = pi
                 /\ node_count' = node_count + 2
                 /\ work' = <<first_child, first_child + 1>> \o Tail(work)
                 /\ pc' = pc

\* build_recursive returns leaving the node a leaf
KeepLeaf(node_index, node) ==
    /\ nodes' = [nodes EXCEPT ![node_index + 1] = node]
    /\ work' = Tail(work)
    /\ pc' = pc
    /\ UNCHANGED <<prim_indices, node_count, sort_calls>>

\* The set of primitives the partition predicate sends to the left
LeftOfSplit(split, node) ==
    {p \in 0..(PrimCount - 1) : bin_index(split.axis, node.bbox, centers[p + 1]) < split.right_bin}

\* Whether some bin_index the call evaluates converts a non-finite float
SahUndefined(pi, node) ==
    \/ \E axis \in 0..2, i \in 0..(node.prim_count - 1) :
          BinIndexUndefined(axis, node.bbox, centers[NodePrimRead(pi, node, i) + 1])
    \/ \E axis \in 0..2, k \in Range(node.first_index, node.prim_count) :
          BinIndexUndefined(axis, node.bbox, centers[pi[k + 1] + 1])

\* MedianSplit without the std::sort
MedianSplitNoSort(node_index, node, key, first_right) ==
    /\ SplitNode(node_index, node, prim_indices, first_right)
    /\ UNCHANGED sort_calls

\* build_recursive, the median split: the std::sort of the range of the node
\* by key and the split at first_right
MedianSplit(node_index, node, key, first_right) ==
    \E pi \in StdSort(sort_calls, prim_indices, node.first_index, node.prim_count, key) :
        /\ SplitNode(node_index, node, pi, first_right)
        /\ sort_calls' = sort_calls \cup
               {SortCall(prim_indices, node.first_index, node.prim_count, key, pi)}

\* ApplySplit without the median split: a node no split is accepted for stays
\* a leaf
ApplySplitKeep(node_index, node, min_split) ==
    IF ~SplitValid(min_split) \/ FGt(min_split.cost, LeafCost(node))
    THEN KeepLeaf(node_index, node)
    ELSE \E pi \in StdPartitionRange(prim_indices, node.first_index, node.prim_count,
                       LeftOfSplit(min_split, node)) :
             /\ SplitNode(node_index, node, pi,
                          node.first_index + Cardinality(
                              {k \in Range(node.first_index, node.prim_count) :
                                  pi[k + 1] \in LeftOfSplit(min_split, node)}))
             /\ UNCHANGED sort_calls

\* ApplySplit whose median split gives every primitive to the right child
ApplySplitNoMedian(node_index, node, min_split) ==
    IF ~SplitValid(min_split) \/ FGt(min_split.cost, LeafCost(node))
    THEN IF node.prim_count > max_prims
         THEN MedianSplit(node_index, node,
                          [p \in 0..(PrimCount - 1) |->
                              centers[p + 1][largest_axis(node.bbox) + 1]],
                          node.first_index)
         ELSE KeepLeaf(node_index, node)
    ELSE \E pi \in StdPartitionRange(prim_indices, node.first_index, node.prim_count,
                       LeftOfSplit(min_split, node)) :
             /\ SplitNode(node_index, node, pi,
                          node.first_index + Cardinality(
                              {k \in Range(node.first_index, node.prim_count) :
                                  pi[k + 1] \in LeftOfSplit(min_split, node)}))
             /\ UNCHANGED sort_calls

\* build_recursive from line 280 on, given min_split
ApplySplit(node_index, node, min_split) ==
    IF ~SplitValid(min_split) \/ FGt(min_split.cost, LeafCost(node))
    THEN IF node.prim_count > max_prims
         THEN MedianSplit(node_index, node,
                          [p \in 0..(PrimCount - 1) |->
                              centers[p + 1][largest_axis(node.bbox) + 1]],
                          node.first_index + (node.prim_count \div 2))
         ELSE KeepLeaf(node_index, node)
    ELSE \E pi \in StdPartitionRange(prim_indices, node.first_index, node.prim_count,
                       LeftOfSplit(min_split, node)) :
             /\ SplitNode(node_index, node, pi,
                          node.first_index + Cardinality(
                              {k \in Range(node.first_index, node.prim_count) :
                                  pi[k + 1] \in LeftOfSplit(min_split, node)}))
             /\ UNCHANGED sort_calls

\* build_recursive from line 271 on; node carries the box of lines 267-269
SplitOrLeaf(node_index, node) ==
    IF node.prim_count < min_prims
    THEN KeepLeaf(node_index, node)
    ELSE IF SahUndefined(prim_indices, node)
    THEN /\ pc' = "ub"
         /\ UNCHANGED <<nodes, prim_indices, node_count, work, sort_calls>>
    ELSE ApplySplit(node_index, node, MinSplit(prim_indices, node))

\* build_recursive on bvh.nodes[node_index]
Recurse(node_index, entry) ==
    IF ~is_leaf(entry)
    THEN /\ pc' = "assert_failed"
         /\ UNCHANGED <<nodes, prim_indices, node_count, work, sort_calls>>
    ELSE SplitOrLeaf(node_index,
                     [entry EXCEPT !.bbox = NodeBBox(prim_indices, entry, entry.prim_count)])

\* One call of build_recursive, up to its recursive calls
BuildRecursive ==
    /\ pc = "sah_build"
    /\ work # <<>>
    /\ Recurse(Head(work), nodes[Head(work) + 1])
    /\ UNCHANGED <<image, call, other_run, variant, tris, mortons, current_nodes, insertion_index>>
    /\ UNCHANGED travVars

\* Bvh::build after the outermost build_recursive returned
SahBuildFinish ==
    /\ pc = "sah_build"
    /\ work = <<>>
    /\ nodes' = SubSeq(nodes, 1, node_count)
    /\ pc' = "built"
    /\ UNCHANGED <<image, call, other_run, sort_calls, variant, tris, prim_indices, node_count, work, mortons, current_nodes,
                   insertion_index>>
    /\ UNCHANGED travVars

---------------------------------------------------------------------------
(* The PLOC builder *)

log_bits == 5

grid_dim == 1024

search_radius == 14

Pow2(n) == 2 ^ n

\* Bit i of the natural number x
Bit(x, i) == (x \div Pow2(i)) % 2

\* Morton::split: the mask loop leaves bit i of x at bit 3 * i (the bits of x
\* above 2 * log_bits are dropped; a 32-bit x << 32 in its first round is
\* or-ed into x and masked, and both x << 32 = x and x << 32 = 0 give this)
RECURSIVE MortonSplitFrom(_, _)
MortonSplitFrom(x, i) ==
    IF i > 2 * log_bits THEN 0
    ELSE Bit(x, i) * Pow2(3 * i) + MortonSplitFrom(x, i + 1)

MortonSplit(x) == MortonSplitFrom(x, 0)

\* Morton::encode: the three spread values have no bit in common
MortonEncode(x, y, z) == MortonSplit(x) + 2 * MortonSplit(y) + 4 * MortonSplit(z)

\* std::transform_reduce over the centers
RECURSIVE CenterBBox(_)
CenterBBox(n) ==
    IF n = 0 THEN BBoxEmptyPloc
    ELSE CHOOSE r \in {Extend(acc, BBoxOfPoint(centers[n])) : acc \in {CenterBBox(n - 1)}} : TRUE

\* grid_pos of primitive i (0-based), given center_bbox
GridPos(cb, i) ==
    VMin(Vec3All(F(grid_dim - 1)),
         VMax(Vec3All(F(0)),
              VMul(VSub(centers[i + 1], cb.min),
                   VDiv(Vec3All(F(grid_dim)), diagonal(cb)))))

\* Morton::encode(grid_pos[0], grid_pos[1], grid_pos[2]): each float is
\* converted to Morton::Value
MortonOfGrid(g) == MortonEncode(Trunc(g[1]), Trunc(g[2]), Trunc(g[3]))

\* mortons[i]
MortonOf(i) == MortonOfGrid(GridPos(CenterBBox(PrimCount), i))

\* find_closest_node, round i of the loop, the comparison
ClosestCompare(prev, i, distance) ==
    IF FLt(distance, prev[2]) THEN <<i, distance>> ELSE prev

\* find_closest_node, round i of the loop: <<best_index, best_distance>>
ClosestRound(ns, index, prev, i) ==
    IF i = index THEN prev
    ELSE ClosestCompare(prev, i, half_area(Extend(ns[index + 1].bbox, ns[i + 1].bbox)))

\* find_closest_node: <<best_index, best_distance>> after the rounds
\* begin .. i - 1 of the loop
RECURSIVE ClosestScan(_, _, _, _)
ClosestScan(ns, index, begin, i) ==
    IF i <= begin THEN <<0, FltMax(1)>>
    ELSE CHOOSE r \in {ClosestRound(ns, index, prev, i - 1) :
                          prev \in {ClosestScan(ns, index, begin, i - 1)}} : TRUE

find_closest_node(ns, index) ==
    ClosestScan(ns, index,
                IF index > search_radius THEN index - search_radius ELSE 0,
                IF index + search_radius + 1 < Len(ns)
                THEN index + search_radius + 1 ELSE Len(ns))[1]

\* ParentNode with the box of its first child only
ParentNodeLeft(left, right, ins) == Node(left.bbox, 0, ins)

\* ParentNode that points two slots behind its children
ParentNodeFar(left, right, ins) == Node(Extend(left.bbox, right.bbox), 0, ins + 2)

\* ParentNode that points one slot behind its children
ParentNodeShifted(left, right, ins) == Node(Extend(left.bbox, right.bbox), 0, ins + 1)

\* The parent of the two merged nodes, whose children are at insertion_index
\* and insertion_index + 1
ParentNode(left, right, ins) == Node(Extend(left.bbox, right.bbox), 0, ins)

\* The second loop of one round of the merge loop, at position i of the
\* working sequence; st holds next_nodes, the cursor, bvh.nodes, and whether
\* assert(insertion_index >= 2) failed
MergeAt(cur, merge_index, st, i) ==
    LET j == merge_index[i + 1]
    IN  IF st.failed THEN st
        ELSE IF i = merge_index[j + 1]
        THEN IF i > j THEN st
             ELSE IF st.ins < 2 THEN [st EXCEPT !.failed = TRUE]
             ELSE [next   |-> Append(st.next, ParentNode(cur[i + 1], cur[j + 1], st.ins - 2)),
                   ins    |-> st.ins - 2,
                   out    |-> [st.out EXCEPT ![st.ins - 1] = cur[i + 1],
                                             ![st.ins] = cur[j + 1]],
                   failed |-> FALSE]
        ELSE [st EXCEPT !.next = Append(st.next, cur[i + 1])]

\* The second loop after the positions 0 .. i - 1
RECURSIVE MergeLoop(_, _, _, _, _)
MergeLoop(cur, merge_index, i, ins0, out0) ==
    IF i = 0 THEN [next |-> <<>>, ins |-> ins0, out |-> out0, failed |-> FALSE]
    ELSE CHOOSE r \in {MergeAt(cur, merge_index, st, i - 1) :
                          st \in {MergeLoop(cur, merge_index, i - 1, ins0, out0)}} : TRUE

\* Bvh::build up to the Morton codes, and the resize and iota of prim_indices
PlocBuildStart ==
    /\ pc = "start"
    /\ variant = "ploc"
    /\ mortons' = [i \in 1..PrimCount |-> MortonOf(i - 1)]
    /\ prim_indices' = Iota(PrimCount)
    /\ pc' = "ploc_sort"
    /\ UNCHANGED <<image, call, other_run, sort_calls, variant, tris, nodes, node_count, work, current_nodes, insertion_index>>
    /\ UNCHANGED travVars

\* std::sort of prim_indices by Morton code
PlocSort ==
    /\ pc = "ploc_sort"
    /\ prim_indices' \in StdSort(sort_calls, prim_indices, 0, PrimCount,
                                  [p \in 0..(PrimCount - 1) |-> F(mortons[p + 1])])
    /\ sort_calls' = sort_calls \cup
           {SortCall(prim_indices, 0, PrimCount,
                     [p \in 0..(PrimCount - 1) |-> F(mortons[p + 1])], prim_indices')}
    /\ pc' = "ploc_leaves"
    /\ UNCHANGED <<image, call, other_run, variant, tris, nodes, node_count, work, mortons, current_nodes, insertion_index>>
    /\ UNCHANGED travVars

\* PlocLeaf whose range starts at position 0 for every leaf
PlocLeafSame(i) == Node(bboxes[prim_indices[i + 1] + 1], 1, 0)

\* PlocLeaf with a range that starts one position late
PlocLeafShifted(i) == Node(bboxes[prim_indices[i + 1] + 1], 1, i + 1)

\* current_nodes[i] of the loop that creates the leaves
PlocLeaf(i) == Node(bboxes[prim_indices[i + 1] + 1], 1, i)

\* The leaves of the working sequence and the resize of bvh.nodes
PlocLeaves ==
    /\ pc = "ploc_leaves"
    /\ current_nodes' = [i \in 1..PrimCount |-> PlocLeaf(i - 1)]
    /\ IF ResizeThrows(PrimCount)
       THEN /\ pc' = "threw"
            /\ UNCHANGED <<nodes, insertion_index>>
       ELSE /\ nodes' = [i \in 1..(2 * PrimCount - 1) |-> NodeZero]
            /\ insertion_index' = 2 * PrimCount - 1
            /\ pc' = "ploc_merge"
    /\ UNCHANGED <<image, call, other_run, sort_calls, variant, tris, prim_indices, node_count, work, mortons>>
    /\ UNCHANGED travVars

\* One round of the merge loop, from the swap on; st is what the second
\* loop left
MergeSwap(st) ==
    IF st.failed
    THEN /\ pc' = "assert_failed"
         /\ UNCHANGED <<nodes, current_nodes, insertion_index>>
    ELSE /\ nodes' = st.out
         /\ current_nodes' = st.next
         /\ insertion_index' = st.ins
         /\ pc' = pc

\* One round of the merge loop, its first loop
MergeIndex(cur) == [i \in 1..Len(cur) |-> find_closest_node(cur, i - 1)]

\* One round of the merge loop
PlocMergeRound ==
    /\ pc = "ploc_merge"
    /\ Len(current_nodes) > 1
    /\ MergeSwap(MergeLoop(current_nodes, MergeIndex(current_nodes), Len(current_nodes),
                           insertion_index, nodes))
    /\ UNCHANGED <<image, call, other_run, sort_calls, variant, tris, prim_indices, node_count, work, mortons>>
    /\ UNCHANGED travVars

\* Bvh::build after the merge loop
PlocBuildFinish ==
    /\ pc = "ploc_merge"
    /\ Len(current_nodes) <= 1
    /\ IF insertion_index # 1
       THEN /\ pc' = "assert_failed"
            /\ UNCHANGED nodes
       ELSE /\ nodes' = [nodes EXCEPT ![1] = current_nodes[1]]
            /\ pc' = "built"
    /\ UNCHANGED <<image, call, other_run, sort_calls, variant, tris, prim_indices, node_count, work, mortons, current_nodes,
                   insertion_index>>
    /\ UNCHANGED travVars

---------------------------------------------------------------------------
(* Bvh::traverse *)

\* The leaf loop, one round, given what prims[prim_index].intersect(ray)
\* gave: the ray and hit.prim_index
LeafTest(st, prim_index, res) ==
    IF res.hit THEN [ray |-> res.ray, hit |-> prim_index] ELSE [ray |-> res.ray, hit |-> st.hit]

\* The leaf loop, given prim_index
LeafPrim(st, prim_index) ==
    LeafTest(st, prim_index, TriangleIntersect(tris[prim_index + 1], st.ray))

\* The leaf loop, round i
LeafRound(node, st, i) == LeafPrim(st, prim_indices[node.first_index + i + 1])

\* The leaf loop after the first n primitives of the leaf
RECURSIVE LeafLoop(_, _, _, _)
LeafLoop(node, r, h, n) ==
    IF n = 0 THEN [ray |-> r, hit |-> h]
    ELSE CHOOSE res \in {LeafRound(node, st, n - 1) : st \in {LeafLoop(node, r, h, n - 1)}} : TRUE

\* Whether the leaf loop reads outside prim_indices or prims
LeafOutOfBounds(node) ==
    \E i \in 0..(node.prim_count - 1) :
        \/ node.first_index + i >= Len(prim_indices)
        \/ prim_indices[node.first_index + i + 1] >= Len(tris)

\* Children that names the first child twice
ChildrenTwice(node) == <<node.first_index, node.first_index>>

\* What an internal node pushes, in the order of the pushes
Children(node) == <<node.first_index, node.first_index + 1>>

\* The stack is kept with its top first
Reverse(seq) == [k \in 1..Len(seq) |-> seq[Len(seq) + 1 - k]]

\* Bvh::traverse is called: the stack holds the root
TraverseStart ==
    /\ pc = "built"
    /\ \E r \in Rays :
           /\ other_run.ray0 \in {NoRay, r}
           /\ ray' = r
           /\ ray0' = r
    /\ hit' = HitNone
    /\ stack' = <<0>>
    /\ pushed' = <<0>>
    /\ popped' = <<>>
    /\ pc' = "traverse"
    /\ UNCHANGED <<image, call, other_run, sort_calls, variant, tris>>
    /\ UNCHANGED buildVars

\* One round of the loop of Bvh::traverse, after the leaf loop left st
LeafDone(st) ==
    /\ ray' = st.ray
    /\ hit' = st.hit
    /\ stack' = Tail(stack)
    /\ UNCHANGED <<pushed, pc>>

\* One round of the loop of Bvh::traverse, after the pop of the node
VisitNode(node) ==
    IF ~IntersectionHit(NodeIntersect(node, ray))
    THEN /\ stack' = Tail(stack)
         /\ UNCHANGED <<ray, hit, pushed, pc>>
    ELSE IF is_leaf(node)
    THEN IF LeafOutOfBounds(node)
         THEN /\ pc' = "oob"
              /\ UNCHANGED <<ray, hit, stack, pushed>>
         ELSE LeafDone(LeafLoop(node, ray, hit, node.prim_count))
    ELSE /\ stack' = Reverse(Children(node)) \o Tail(stack)
         /\ pushed' = pushed \o Children(node)
         /\ UNCHANGED <<ray, hit, pc>>

\* One round of the loop of Bvh::traverse
TraverseStep ==
    /\ pc = "traverse"
    /\ stack # <<>>
    /\ IF Head(stack) >= Len(nodes)
       THEN /\ pc' = "oob"
            /\ UNCHANGED <<ray, hit, stack, pushed, popped>>
       ELSE /\ popped' = Append(popped, Head(stack))
            /\ VisitNode(nodes[Head(stack) + 1])
    /\ UNCHANGED <<image, call, other_run, sort_calls, variant, tris, ray0>>
    /\ UNCHANGED buildVars

\* Bvh::traverse returns hit
TraverseReturn ==
    /\ pc = "traverse"
    /\ stack = <<>>
    /\ pc' = "done"
    /\ UNCHANGED <<image, call, other_run, sort_calls, variant, tris>>
    /\ UNCHANGED buildVars
    /\ UNCHANGED travVars

---------------------------------------------------------------------------
(* main: the pixel of the ray *)

\* hit.prim_index * k stored in a uint8_t: the product is taken modulo 2^32
\* and its low byte is kept, which is the low byte of (prim_index mod 256) * k
PixelByte(prim_index, k) == ((prim_index % 256) * k) % 256

\* main stores the three bytes of the pixel after Bvh::traverse returned
WritePixel ==
    /\ pc = "done"
    /\ image' = <<PixelByte(hit, 37), PixelByte(hit, 91), PixelByte(hit, 51)>>
    /\ pc' = "rendered"
    /\ UNCHANGED <<call, other_run, sort_calls, variant, tris>>
    /\ UNCHANGED buildVars
    /\ UNCHANGED travVars

---------------------------------------------------------------------------
(* The specification *)

Next ==
    \/ SahBuildStart
    \/ BuildRecursive
    \/ SahBuildFinish
    \/ PlocBuildStart
    \/ PlocSort
    \/ PlocLeaves
    \/ PlocMergeRound
    \/ PlocBuildFinish
    \/ TraverseStart
    \/ TraverseStep
    \/ TraverseReturn
    \/ WritePixel

Spec == Init /\ [][Next]_vars

\* The scene and the ray of a finished run are handed to the other program
RunOther ==
    /\ pc = "done"
    /\ other_run = NoRun
    /\ PrimCount <= PairPrims
    /\ other_run' = Run(variant, nodes, prim_indices, ray0, hit, ray.tmax)
    /\ variant' = IF variant = "sah" THEN "ploc" ELSE "sah"
    /\ pc' = "start"
    /\ nodes' = <<>>
    /\ prim_indices' = <<>>
    /\ node_count' = 0
    /\ work' = <<>>
    /\ mortons' = <<>>
    /\ current_nodes' = <<>>
    /\ insertion_index' = 0
    /\ ray' = NoRay
    /\ ray0' = NoRay
    /\ hit' = HitNone
    /\ stack' = <<>>
    /\ pushed' = <<>>
    /\ popped' = <<>>
    /\ UNCHANGED <<tris, sort_calls, call, image>>

---------------------------------------------------------------------------
(* The functions called on their own *)

\* The floats robust_min and robust_max are called on
Floats ==
    {NaN, F(0), F(1), F(-1), Rat(1, 2), FltMax(1), FltMax(-1), FInf(1), FInf(-1)}

\* The triangles Triangle::intersect and Node::intersect are called on: those
\* of the soups, a point, a segment and a triangle with a NaN coordinate
UnitTris ==
    {PatternTri(p, i) : p \in Patterns, i \in 0..2} \cup
    {Triangle(Vec3All(F(0)), Vec3All(F(0)), Vec3All(F(0))),
     Triangle(Vec3All(F(0)), Vec3(F(1), F(0), F(0)), Vec3(F(2), F(0), F(0))),
     Triangle(Vec3(NaN, F(0), F(0)), Vec3(F(1), F(0), F(0)), Vec3(F(0), F(1), F(0)))}

\* The rays they are called with: those of main, rays that start at
\* tmin = 3, and rays with a NaN in dir, tmin or tmax
UnitRays ==
    Rays \cup
    {Ray(od[1], od[2], F(3), FltMax(1)) : od \in RayOrigins} \cup
    {Ray(Vec3(Rat(1, 4), Rat(1, 4), F(2)), Vec3(NaN, F(0), F(-1)), F(0), FltMax(1)),
     Ray(Vec3(Rat(1, 4), Rat(1, 4), F(2)), Vec3(F(0), F(0), F(-1)), NaN, FltMax(1)),
     Ray(Vec3(Rat(1, 4), Rat(1, 4), F(2)), Vec3(F(0), F(0), F(-1)), F(0), NaN)}

\* The soups find_best_split is called on, for their root
UnitSoups == {Soup(p, n) : p \in Patterns, n \in 2..3}

\* The splits find_best_split can return for an axis: its initial split
\* (cost = numeric_limits<float>::max(), right_bin = 0) or a candidate it
\* accepted, of a cost below that
UnitSplits(axis) ==
    {SplitInit(axis)} \cup {Split(axis, cost, right_bin) : cost \in {F(1), F(2)}, right_bin \in {1, 15}}

\* A caller is about to call robust_min and robust_max on two floats, or
\* Node::intersect or Triangle::intersect on a leaf of one triangle and a ray,
\* or find_best_split on the root of a soup, or std::min on the splits of
\* the three axes
UnitInit ==
    /\ variant = "sah"
    /\ \/ /\ pc = "call_robust"
          /\ \E a, b \in Floats : call = Call(a, b, F(0), F(0), NoCall.isect)
          /\ tris = <<>>
          /\ nodes = <<>>
          /\ ray = NoRay
          /\ ray0 = NoRay
       \/ /\ pc = "call_node"
          /\ call = NoCall
          /\ \E tri \in UnitTris :
                 /\ tris = <<tri>>
                 /\ \E box \in {BBoxOfTriangle(tri), BBoxEmptySah} :
                        nodes = <<Node(box, 1, 0)>>
          /\ \E r \in UnitRays : ray = r /\ ray0 = r
       \/ /\ pc = "call_triangle"
          /\ call = NoCall
          /\ \E tri \in UnitTris :
                 /\ tris = <<tri>>
                 /\ nodes = <<Node(BBoxOfTriangle(tri), 1, 0)>>
          /\ \E r \in UnitRays : ray = r /\ ray0 = r
       \/ /\ pc = "call_split"
          /\ call = NoCall
          /\ tris \in UnitSoups
          /\ nodes = <<Node(NodeBBox(Iota(Len(tris)), Node(BBoxEmptySah, Len(tris), 0), Len(tris)),
                            Len(tris), 0)>>
          /\ ray = NoRay
          /\ ray0 = NoRay
       \/ /\ pc = "call_min"
          /\ \E s0 \in UnitSplits(0), s1 \in UnitSplits(1), s2 \in UnitSplits(2) :
                 call = [splits |-> <<s0, s1, s2>>, min_split |-> SplitInit(0)]
          /\ tris = <<>>
          /\ nodes = <<>>
          /\ ray = NoRay
          /\ ray0 = NoRay
    /\ prim_indices = IF pc = "call_split" THEN Iota(Len(tris)) ELSE <<0>>
    /\ node_count = 1
    /\ work = <<>>
    /\ mortons = <<>>
    /\ current_nodes = <<>>
    /\ insertion_index = 0
    /\ hit = HitNone
    /\ stack = <<>>
    /\ pushed = <<>>
    /\ popped = <<>>
    /\ other_run = NoRun
    /\ sort_calls = {}
    /\ image = <<0, 0, 0>>

\* robust_min(a, b) and robust_max(a, b) return
RobustCall ==
    /\ pc = "call_robust"
    /\ call' = [call EXCEPT !.rmin = robust_min(call.a, call.b),
                            !.rmax = robust_max(call.a, call.b)]
    /\ pc' = "returned_robust"
    /\ UNCHANGED <<image, other_run, sort_calls, variant, tris>>
    /\ UNCHANGED buildVars
    /\ UNCHANGED travVars

\* nodes[0].intersect(ray) returns
NodeIntersectCall ==
    /\ pc = "call_node"
    /\ call' = [call EXCEPT !.isect = NodeIntersect(nodes[1], ray)]
    /\ pc' = "returned_node"
    /\ UNCHANGED <<image, other_run, sort_calls, variant, tris>>
    /\ UNCHANGED buildVars
    /\ UNCHANGED travVars

\* prims[0].intersect(ray) returns, and the caller stores the index of the
\* primitive when it returned true, as the leaf loop of Bvh::traverse does
TriangleIntersectCall ==
    /\ pc = "call_triangle"
    /\ \E st \in {LeafPrim([ray |-> ray, hit |-> hit], 0)} :
           /\ ray' = st.ray
           /\ hit' = st.hit
    /\ pc' = "returned_triangle"
    /\ UNCHANGED <<image, call, other_run, sort_calls, variant, tris, ray0, stack, pushed, popped>>
    /\ UNCHANGED buildVars

\* find_best_split(axis, bvh, bvh.nodes[0], bboxes, centers) returns; the
\* caller keeps the bins of its first loop with the split
FindBestSplitCall ==
    /\ pc = "call_split"
    /\ ~SahUndefined(prim_indices, nodes[1])
    /\ \E axis \in 0..2 :
           call' = [axis  |-> axis,
                    bins  |-> FillBins(axis, prim_indices, nodes[1], nodes[1].prim_count),
                    split |-> find_best_split(axis, prim_indices, nodes[1])]
    /\ pc' = "returned_split"
    /\ UNCHANGED <<image, other_run, sort_calls, variant, tris>>
    /\ UNCHANGED buildVars
    /\ UNCHANGED travVars

\* The loop of build_recursive over the three axes returns: min_split =
\* std::min(min_split, split of the axis), from a default Split
MinSplitCall ==
    /\ pc = "call_min"
    /\ call' = [call EXCEPT !.min_split =
                    SplitMin(SplitMin(SplitMin(SplitInit(0), call.splits[1]), call.splits[2]),
                             call.splits[3])]
    /\ pc' = "returned_min"
    /\ UNCHANGED <<image, other_run, sort_calls, variant, tris>>
    /\ UNCHANGED buildVars
    /\ UNCHANGED travVars

UnitNext ==
    \/ RobustCall
    \/ NodeIntersectCall
    \/ TriangleIntersectCall
    \/ FindBestSplitCall
    \/ MinSplitCall

UnitSpec == UnitInit /\ [][UnitNext]_vars

---------------------------------------------------------------------------
(* Both programs, and one program twice *)

\* Bvh::build is called once more on the scene
RunAgain ==
    /\ pc = "built"
    /\ other_run = NoRun
    /\ other_run' = Run(variant, nodes, prim_indices, NoRay, HitNone, F(0))
    /\ pc' = "start"
    /\ nodes' = <<>>
    /\ prim_indices' = <<>>
    /\ node_count' = 0
    /\ work' = <<>>
    /\ mortons' = <<>>
    /\ current_nodes' = <<>>
    /\ insertion_index' = 0
    /\ UNCHANGED <<variant, tris, sort_calls, call, image>>
    /\ UNCHANGED travVars

TwiceNext ==
    \/ Next
    \/ RunAgain

\* A program builds the BVH of one scene twice
TwiceSpec == Init /\ [][TwiceNext]_vars

PairNext ==
    \/ Next
    \/ RunOther

\* Both programs run on one scene and one ray, one after the other
PairSpec == Init /\ [][PairNext]_vars

\* A round of the loop of Bvh::traverse can run exactly when the call is
\* under way and the stack is not empty, and it changes the state
TraverseStepEnabled == pc = "traverse" /\ stack # <<>>

\* A call of build_recursive is pending exactly when Bvh::build of the SAH
\* program is under way and a call is left to make, and it changes the state
BuildRecursiveEnabled == pc = "sah_build" /\ work # <<>>

\* Bvh::build and Bvh::traverse run in one thread: a step that can run does
\* run. The conjuncts with []<> are WF_vars(TraverseStep) and
\* WF_vars(BuildRecursive) with ENABLED <<TraverseStep>>_vars and
\* ENABLED <<BuildRecursive>>_vars written out.
FairSpec ==
    /\ Spec
    /\ WF_vars(TraverseReturn)
    /\ ([]<>~TraverseStepEnabled \/ []<><<TraverseStep>>_vars)
    /\ WF_vars(SahBuildFinish)
    /\ ([]<>~BuildRecursiveEnabled \/ []<><<BuildRecursive>>_vars)

---------------------------------------------------------------------------
(* What the properties below speak about *)

\* Bvh::build has returned the BVH
Built == pc \in {"built", "traverse", "done"}

\* seq holds every value of 0 .. n - 1 exactly once
IsPermutation(seq, n) ==
    /\ Len(seq) = n
    /\ \A v \in 0..(n - 1) : Cardinality({k \in 1..n : seq[k] = v}) = 1

\* The child indices of the node stored at index i
ChildSet(i) ==
    IF i < Len(nodes) /\ ~is_leaf(nodes[i + 1])
    THEN {nodes[i + 1].first_index, nodes[i + 1].first_index + 1}
    ELSE {}

\* The indices reached from the set S in at most fuel steps
RECURSIVE Reach(_, _)
Reach(S, fuel) ==
    IF fuel = 0 \/ UNION {ChildSet(i) : i \in S} \subseteq S THEN S
    ELSE Reach(S \cup UNION {ChildSet(i) : i \in S}, fuel - 1)

\* The node indices reachable from nodes[0]
Reachable == Reach({0}, Len(nodes))

ReachableLeaves == {i \in Reachable : i < Len(nodes) /\ is_leaf(nodes[i + 1])}

\* The range [first_index, first_index + prim_count) of the node at index i
LeafRange(i) == Range(nodes[i + 1].first_index, nodes[i + 1].prim_count)

\* The leaf ranges are pairwise disjoint and their union is [0, N)
LeavesPartition ==
    /\ \A i \in ReachableLeaves : LeafRange(i) \subseteq 0..(PrimCount - 1)
    /\ \A k \in 0..(PrimCount - 1) : Cardinality({i \in ReachableLeaves : k \in LeafRange(i)}) = 1

\* The box of the node at index i contains its children or its primitives
NodeEncloses(i) ==
    IF is_leaf(nodes[i + 1])
    THEN \A k \in LeafRange(i) :
             /\ k < Len(prim_indices)
             /\ prim_indices[k + 1] < PrimCount
             /\ Contains(nodes[i + 1].bbox, bboxes[prim_indices[k + 1] + 1])
    ELSE \A c \in ChildSet(i) :
             /\ c < Len(nodes)
             /\ Contains(nodes[i + 1].bbox, nodes[c + 1].bbox)

BoxesContain == \A i \in 0..(Len(nodes) - 1) : NodeEncloses(i)

\* Testing every primitive with the ray as it was passed to Bvh::traverse
Candidates == {p \in 0..(PrimCount - 1) : TriangleIntersect(tris[p + 1], ray0).hit}

\* The hit distance of primitive p
HitDistance(p) == TriangleIntersect(tris[p + 1], ray0).ray.tmax

NoRepeat(seq) == \A a, b \in 1..Len(seq) : seq[a] = seq[b] => a = b

---------------------------------------------------------------------------
(* The properties *)

\* C1: from the iota of Bvh::build on, at every point of the build and after
\* it, prim_indices of a build on N > 0 primitives holds every value of
\* 0 .. N - 1 exactly once, in the SAH and in the PLOC program.
C1_PrimIndicesPermutation ==
    (PrimCount > 0 /\ pc # "start") => IsPermutation(prim_indices, PrimCount)

\* The SAH build has split twice and its sorts have moved primitives
C1_Witness ==
    /\ variant = "sah"
    /\ pc = "sah_build"
    /\ node_count = 5
    /\ prim_indices # Iota(PrimCount)

\* C2: in the BVH either builder returns for N > 0 primitives, the ranges of
\* the leaves reachable from nodes[0] are pairwise disjoint and their union
\* is [0, N).
C2_LeafRangesPartition == (Built /\ PrimCount > 0) => LeavesPartition

\* A returned BVH with three leaves or more
C2_Witness ==
    /\ pc = "built"
    /\ Cardinality(ReachableLeaves) >= 3
    /\ \E i \in ReachableLeaves : nodes[i + 1].prim_count > 1

\* C3: in the BVH either builder returns, the box of every internal node
\* contains the boxes of both children, the box of every leaf contains the
\* box of every primitive of its range, and the box of nodes[0] contains
\* every input box.
C3_BoxesEnclose ==
    Built =>
        /\ BoxesContain
        /\ \A p \in 1..PrimCount : Contains(nodes[1].bbox, bboxes[p])

\* A returned PLOC BVH with an internal node whose box is smaller than the
\* root's
C3_Witness ==
    /\ variant = "ploc"
    /\ pc = "built"
    /\ \E i \in 1..(Len(nodes) - 1) :
           ~is_leaf(nodes[i + 1]) /\ nodes[i + 1].bbox # nodes[1].bbox

\* C4: on a BVH whose leaves partition the primitives and whose boxes contain
\* their primitives, Bvh::traverse returns no hit iff no primitive is hit
\* within [tmin, initial tmax], and otherwise a primitive whose hit distance
\* is the least among the primitives hit within that interval.
C4_TraverseIsBruteForce ==
    (pc = "done" /\ LeavesPartition /\ BoxesContain) =>
        IF Candidates = {} THEN hit = HitNone
        ELSE /\ hit \in Candidates
             /\ \A q \in Candidates : FLe(HitDistance(hit), HitDistance(q))

\* What C5 says of every state of a call of Bvh::traverse
TraverseBounded ==
    pc \in {"traverse", "done"} =>
        /\ NoRepeat(pushed)
        /\ NoRepeat(popped)
        /\ \A k \in 1..Len(pushed) : pushed[k] < Len(nodes)
        /\ \A k \in 1..Len(popped) : \E j \in 1..Len(pushed) : pushed[j] = popped[k]
        /\ Len(popped) <= Len(nodes)
        /\ pc = "done" => stack = <<>>

\* C5: on every BVH either builder returns, Bvh::traverse, started with the
\* stack [0], pushes and pops each node index at most once, pushes only
\* valid indices into nodes, pops at most nodes.size() times, and ends with
\* an empty stack.
C5_TraverseTerminates == []TraverseBounded /\ (pc = "traverse" ~> pc = "done")

\* Bvh::traverse returned after it popped every node of a BVH of five nodes
\* or more
C5_Witness ==
    /\ pc = "done"
    /\ Len(nodes) >= 5
    /\ Len(popped) = Len(nodes)

\* What C6 says of every state of a call of Bvh::traverse; ray0 is the ray
\* as it was passed
TraverseKeepsRay ==
    /\ pc \in {"traverse", "done"} =>
           /\ ray.org = ray0.org
           /\ ray.dir = ray0.dir
           /\ ray.tmin = ray0.tmin
    /\ pc = "done" =>
           IF hit = HitNone THEN ray.tmax = ray0.tmax
           ELSE /\ hit \in 0..(PrimCount - 1)
                /\ ray.tmax = HitDistance(hit)
                /\ FLe(ray.tmax, ray0.tmax)

\* What C6 says of every step of a call of Bvh::traverse
TraverseKeepsBvh == pc = "traverse" => nodes' = nodes /\ prim_indices' = prim_indices

\* C6: Bvh::traverse leaves ray.org, ray.dir, ray.tmin, the node array and
\* prim_indices as they were; when it returns a hit, ray.tmax is the hit
\* distance of the returned primitive and is at most the initial tmax; when
\* it returns no hit, ray.tmax is its initial value.
C6_TraverseChangesOnlyTmax == []TraverseKeepsRay /\ [][TraverseKeepsBvh]_vars

\* Bvh::traverse returned a hit and lowered ray.tmax
C6_Witness ==
    /\ pc = "done"
    /\ hit # HitNone
    /\ ray.tmax # ray0.tmax

\* C7: Bvh::build with prim_count = 0 returns a BVH without nodes and
\* without primitive indices and raises no error, and Bvh::traverse on that
\* BVH returns Hit::none(), in the SAH and in the PLOC program.
C7_EmptyBuildReturns ==
    PrimCount = 0 =>
        /\ pc \notin {"threw", "assert_failed", "oob", "ub"}
        /\ Built => nodes = <<>> /\ prim_indices = <<>>
        /\ pc = "done" => hit = HitNone

\* C8: for N = 1 both builders return a BVH of exactly one node, a leaf with
\* prim_count = 1 and first_index = 0 whose range holds primitive 0, and no
\* assertion fails.
C8_SinglePrimitive ==
    PrimCount = 1 =>
        /\ pc \notin {"threw", "assert_failed", "oob", "ub"}
        /\ Built =>
               /\ Len(nodes) = 1
               /\ is_leaf(nodes[1])
               /\ nodes[1].prim_count = 1
               /\ nodes[1].first_index = 0
               /\ prim_indices = <<0>>

\* The PLOC builder returned the BVH of one primitive
C8_Witness ==
    /\ PrimCount = 1
    /\ variant = "ploc"
    /\ pc = "built"

\* C9: in the BVH either builder returns, both child indices of every
\* internal node stored at index i are greater than i and smaller than
\* nodes.size().
C9_ChildrenForward ==
    Built =>
        \A i \in 0..(Len(nodes) - 1) :
            ~is_leaf(nodes[i + 1]) =>
                \A c \in ChildSet(i) : i < c /\ c < Len(nodes)

\* The SAH builder returned a BVH in which a child of the root is internal
C9_Witness ==
    /\ variant = "sah"
    /\ pc = "built"
    /\ \E i \in 1..(Len(nodes) - 1) : ~is_leaf(nodes[i + 1])

\* C10 as stated: in the BVH either builder returns, every internal node n
\* stored at index i, the root included, satisfies i < n.first_index and
\* i + 1 < n.first_index.
C10_StrictlyBeyondNext ==
    Built =>
        \A i \in 0..(Len(nodes) - 1) :
            ~is_leaf(nodes[i + 1]) =>
                i < nodes[i + 1].first_index /\ i + 1 < nodes[i + 1].first_index

\* C10, amended: every internal node n stored at index i satisfies
\* i < n.first_index, that is i + 1 <= n.first_index; an internal root has
\* first_index = 1, so that i + 1 < n.first_index does not hold at i = 0.
C10_BeyondSelf ==
    Built =>
        /\ \A i \in 0..(Len(nodes) - 1) :
               ~is_leaf(nodes[i + 1]) =>
                   i < nodes[i + 1].first_index /\ i + 1 <= nodes[i + 1].first_index
        /\ (nodes # <<>> /\ ~is_leaf(nodes[1])) => nodes[1].first_index = 1

\* A returned BVH whose root has its children at 1 and 2, with a second
\* internal node whose children are right behind it
C10_Witness ==
    /\ pc = "built"
    /\ ~is_leaf(nodes[1])
    /\ nodes[1].first_index = 1
    /\ \E i \in 1..(Len(nodes) - 1) :
           ~is_leaf(nodes[i + 1]) /\ i + 1 = nodes[i + 1].first_index

\* build_recursive found nodes[first_child + 1] outside bvh.nodes
SahBuildOutOfBounds == pc = "oob" /\ pushed = <<>>

\* C11: in the SAH build on N > 0 primitives, 2N - 1 slots are reserved
\* before the recursion, node_count never exceeds them, every access to
\* nodes[first_child] and nodes[first_child + 1] is in bounds, and the
\* returned BVH has node_count nodes, at most 2N - 1.
C11_SahNodeCountBounded ==
    (variant = "sah" /\ PrimCount > 0) =>
        /\ ~SahBuildOutOfBounds
        /\ pc = "sah_build" =>
               /\ Len(nodes) = 2 * PrimCount - 1
               /\ node_count <= Len(nodes)
        /\ Built =>
               /\ Len(nodes) = node_count
               /\ Len(nodes) <= 2 * PrimCount - 1

\* The SAH build returned after two splits
C11_Witness ==
    /\ variant = "sah"
    /\ pc = "built"
    /\ node_count = 5


\* Every slot behind the root is the child of exactly one internal node
SlotsFilled ==
    \A c \in 1..(Len(nodes) - 1) :
        Cardinality({i \in 0..(Len(nodes) - 1) : c \in ChildSet(i)}) = 1

\* C12: in the PLOC builder with one primitive or more, assert(insertion_index
\* >= 2) holds at every merge and assert(insertion_index == 1) holds when the
\* merge loop ends, and the 2N - 1 slots are filled exactly: the slots
\* 1 .. 2N - 2 by merged children and slot 0 by the root
C12_PlocFillsSlotsExactly ==
    (variant = "ploc" /\ PrimCount >= 1) =>
        /\ pc # "assert_failed"
        /\ pc = "ploc_merge" => insertion_index = 2 * Len(current_nodes) - 1
        /\ Built =>
               /\ insertion_index = 1
               /\ Len(nodes) = 2 * PrimCount - 1
               /\ SlotsFilled
               /\ Reachable = 0..(Len(nodes) - 1)


\* The primitives of the leaf stored at index i
LeafPrims(i) == {prim_indices[k + 1] : k \in LeafRange(i)}

\* The box of the leaf at index i is the union of the boxes of its
\* primitives: it contains them and each of its six faces touches one
LeafBoxIsUnion(i) ==
    /\ \A p \in LeafPrims(i) : Contains(nodes[i + 1].bbox, bboxes[p + 1])
    /\ \A a \in 1..3 :
           /\ \E p \in LeafPrims(i) : FEq(bboxes[p + 1].min[a], nodes[i + 1].bbox.min[a])
           /\ \E p \in LeafPrims(i) : FEq(bboxes[p + 1].max[a], nodes[i + 1].bbox.max[a])

\* C13: in the BVH of the SAH builder the box of every leaf is exactly the
\* union of the boxes of the primitives in its range; nothing of the
\* BBox::empty() it was seeded with remains
C13_SahLeafBoxIsUnion ==
    (variant = "sah" /\ Built) => \A i \in ReachableLeaves : LeafBoxIsUnion(i)


\* A call of build_recursive that splits gives each child one primitive at
\* least and fewer than the node had
SahSplitShrinks ==
    (variant = "sah" /\ pc = "sah_build" /\ node_count' = node_count + 2) =>
        \A c \in {node_count, node_count + 1} :
            /\ nodes'[c + 1].prim_count >= 1
            /\ nodes'[c + 1].prim_count < nodes[Head(work) + 1].prim_count

\* The calls of build_recursive still to make are on leaves
SahPendingAreLeaves ==
    (variant = "sah" /\ pc = "sah_build") =>
        \A k \in 1..Len(work) : is_leaf(nodes[work[k] + 1])

\* C14: the recursion of the SAH builder terminates for every N > 0: a call of
\* build_recursive that splits gives both children at least one primitive and
\* fewer than the parent, assert(node.is_leaf()) holds on entry to every
\* call, and no child with prim_count = 0 is created
C14_SahRecursionTerminates ==
    /\ [](variant = "sah" => pc # "assert_failed")
    /\ []SahPendingAreLeaves
    /\ [][SahSplitShrinks]_vars
    /\ ((variant = "sah" /\ pc = "sah_build") ~> pc = "built")

C14_Witness ==
    /\ variant = "sah"
    /\ pc = "built"
    /\ PrimCount = MaxPrims
    /\ Len(nodes) = 3
    /\ \A c \in ChildSet(0) : nodes[c + 1].prim_count \in 1..(PrimCount - 1)


\* Every leaf of the SAH builder's BVH holds 1 .. max_prims primitives
SahLeavesSmall ==
    (variant = "sah" /\ Built) =>
        \A i \in 0..(Len(nodes) - 1) :
            is_leaf(nodes[i + 1]) => nodes[i + 1].prim_count \in 1..max_prims

\* A call of build_recursive on a node with more than max_prims primitives
\* splits it; when no binned split was accepted the left child gets the
\* lower half of the median split
SahLargeNodeSplits ==
    (/\ variant = "sah"
     /\ pc = "sah_build"
     /\ work # <<>>
     /\ nodes[Head(work) + 1].prim_count > max_prims) =>
        /\ node_count' = node_count + 2
        /\ ~is_leaf(nodes'[Head(work) + 1])
        /\ nodes'[Head(work) + 1].first_index = node_count
        /\ ~SplitValid(MinSplit(prim_indices,
                                [nodes[Head(work) + 1] EXCEPT
                                    !.bbox = nodes'[Head(work) + 1].bbox])) =>
               nodes'[node_count + 1].prim_count = nodes[Head(work) + 1].prim_count \div 2

\* C15: in the BVH of the SAH builder every leaf holds between 1 and
\* max_prims = 8 primitives; a node with more than max_prims primitives is
\* always split, by the median split when no binned split is accepted
C15_SahLeafSizes == []SahLeavesSmall /\ [][SahLargeNodeSplits]_vars

C15_Witness ==
    /\ variant = "sah"
    /\ pc = "built"
    /\ PrimCount = DeepPrims
    /\ ~is_leaf(nodes[1])
    /\ \E i \in 1..(Len(nodes) - 1) : ~is_leaf(nodes[i + 1])
    /\ \A i \in 0..(Len(nodes) - 1) :
           is_leaf(nodes[i + 1]) => nodes[i + 1].prim_count \in 4..max_prims


\* One primitive is hit strictly before every other one
UniqueClosest ==
    \E p \in Candidates :
        \A q \in Candidates \ {p} : FLt(HitDistance(p), HitDistance(q))

\* C16: for the same primitives and the same ray, the traversals of the SAH
\* BVH and of the PLOC BVH give the same hit / no-hit outcome, the same final
\* ray.tmax and, when the closest primitive is unique, the same primitive
C16_BuildersAgree ==
    (pc = "done" /\ other_run # NoRun) =>
        /\ (hit = HitNone) <=> (other_run.hit = HitNone)
        /\ ray.tmax = other_run.tmax
        /\ UniqueClosest => hit = other_run.hit


\* Two primitives of the scene share a Morton code
MortonTie == \E p, q \in 1..Len(mortons) : p # q /\ mortons[p] = mortons[q]

PlocSorted ==
    /\ variant = "ploc"
    /\ pc \in {"ploc_leaves", "ploc_merge", "assert_failed", "built", "traverse", "done"}

\* prim_indices is in non-decreasing order of Morton code
MortonOrdered ==
    \A a, b \in 1..Len(prim_indices) :
        a < b => mortons[prim_indices[a] + 1] <= mortons[prim_indices[b] + 1]

\* C18: after the sort of the PLOC builder prim_indices is ordered by
\* non-decreasing Morton code, and primitives with equal Morton codes appear
\* in increasing order of their original index (a stable tie-break)
C18_PlocSortStable ==
    PlocSorted =>
        /\ MortonOrdered
        /\ \A a, b \in 1..Len(prim_indices) :
               (a < b /\ mortons[prim_indices[a] + 1] = mortons[prim_indices[b] + 1]) =>
                   prim_indices[a] < prim_indices[b]


\* u, v, w and t of the call of Triangle::intersect made on its own
CallTerms == TriangleTerms(tris[1], ray0)

\* u >= 0, v >= 0, w >= 0 and tmin <= t <= tmax for that call
CallAccepted ==
    /\ FGe(CallTerms.u, F(0))
    /\ FGe(CallTerms.v, F(0))
    /\ FGe(CallTerms.w, F(0))
    /\ FLe(ray0.tmin, CallTerms.t)
    /\ FLe(CallTerms.t, ray0.tmax)

C20_RobustEitherPosition ==
    /\ pc = "returned_robust" =>
           /\ (IsNaN(call.a) /\ ~IsNaN(call.b)) =>
                  call.rmin = call.b /\ call.rmax = call.b
           /\ (~IsNaN(call.a) /\ IsNaN(call.b)) =>
                  call.rmin = call.a /\ call.rmax = call.a
    /\ (pc = "returned_node" /\ ~IsNaN(ray.tmin) /\ ~IsNaN(ray.tmax)) =>
           ~IsNaN(call.isect.tmin) /\ ~IsNaN(call.isect.tmax)

\* C20, amended: robust_min(a, b) and robust_max(a, b) return b, the operand
\* that is not NaN, when only a is NaN; when b is NaN they return b, the NaN.
\* Node::intersect passes ray.tmin and ray.tmax last, so the tmin and tmax it
\* returns are never NaN when ray.tmin and ray.tmax are not NaN
C20_RobustFirstPosition ==
    /\ pc = "returned_robust" =>
           /\ IsNaN(call.a) => call.rmin = call.b /\ call.rmax = call.b
           /\ IsNaN(call.b) => IsNaN(call.rmin) /\ IsNaN(call.rmax)
           /\ call.rmin \in {call.a, call.b}
           /\ call.rmax \in {call.a, call.b}
    /\ (pc = "returned_node" /\ ~IsNaN(ray.tmin) /\ ~IsNaN(ray.tmax)) =>
           ~IsNaN(call.isect.tmin) /\ ~IsNaN(call.isect.tmax)

C20_Witness ==
    /\ pc = "returned_robust"
    /\ IsNaN(call.a)
    /\ call.b = F(1)
    /\ call.rmin = F(1)
    /\ call.rmax = F(1)


\* The parameters t at which org + t * dir is inside the slab of the box on
\* axis a (1-based): the whole line when dir is zero on the axis and org is
\* inside the slab
SlabLow(box, r, a) ==
    IF FSign(r.dir[a]) = 0 THEN FInf(-1)
    ELSE StdMin(FDiv(FSub(box.min[a], r.org[a]), r.dir[a]),
                FDiv(FSub(box.max[a], r.org[a]), r.dir[a]))

SlabHigh(box, r, a) ==
    IF FSign(r.dir[a]) = 0 THEN FInf(1)
    ELSE StdMax(FDiv(FSub(box.min[a], r.org[a]), r.dir[a]),
                FDiv(FSub(box.max[a], r.org[a]), r.dir[a]))

\* org lies within the extent of the box on axis a
OriginInSlab(box, r, a) == FLe(box.min[a], r.org[a]) /\ FLe(r.org[a], box.max[a])

\* The segment org + t * dir, t in [tmin, tmax], meets the box
SegmentMeetsBox(box, r) ==
    /\ FLe(r.tmin, r.tmax)
    /\ \A a \in 1..3 :
           /\ FSign(r.dir[a]) = 0 => OriginInSlab(box, r, a)
           /\ FLe(SlabLow(box, r, a), r.tmax)
           /\ FLe(r.tmin, SlabHigh(box, r, a))
           /\ \A b \in 1..3 : FLe(SlabLow(box, r, a), SlabHigh(box, r, b))

\* C21: Node::intersect has no false miss for a ray with a zero direction
\* component: when dir is zero on an axis, org lies within the extent of the
\* box on that axis and the segment org + t * dir, t in [tmin, tmax], meets
\* the box, the interval it returns has t_enter <= t_exit, however thin the box
C21_NoFalseMissOnZeroDir ==
    (/\ pc = "returned_node"
     /\ \E a \in 1..3 : IsFin(ray.dir[a]) /\ FSign(ray.dir[a]) = 0
     /\ SegmentMeetsBox(nodes[1].bbox, ray)) =>
        IntersectionHit(call.isect)


\* C22: in the rendered image the bytes of a pixel are (idx * 37, idx * 91,
\* idx * 51) mod 256 for a ray that hits primitive idx, and (0, 0, 0) for a
\* ray whose traversal returns no hit
C22_PixelBytes ==
    pc = "rendered" =>
        image = IF hit # HitNone
                THEN <<(hit * 37) % 256, (hit * 91) % 256, (hit * 51) % 256>>
                ELSE <<0, 0, 0>>


\* The window of find_closest_node around position i of a sequence of len nodes
Window(i, len) ==
    {j \in 0..(len - 1) :
        /\ j # i
        /\ (IF i > search_radius THEN i - search_radius ELSE 0) <= j
        /\ j < i + search_radius + 1}

\* half_area(union(bbox_i, bbox_j)) in the working sequence
Distance(i, j) == half_area(Extend(current_nodes[i + 1].bbox, current_nodes[j + 1].bbox))

\* j is what C23 says find_closest_node returns for position i
ClosestInWindow(i, j) ==
    /\ j \in Window(i, Len(current_nodes))
    /\ \A k \in Window(i, Len(current_nodes)) :
           /\ ~FLt(Distance(i, k), Distance(i, j))
           /\ k < j => FLt(Distance(i, j), Distance(i, k))

\* C23: for a working sequence of length len >= 2 and any position i,
\* find_closest_node returns an index j # i of the window
\* [max(0, i - 14), min(len, i + 15)) that minimises half_area(union(bbox_i,
\* bbox_j)) over the window, the smallest such j among equal minima; it
\* returns neither i nor an index outside the window
C23_ClosestNodeInWindow ==
    (variant = "ploc" /\ pc = "ploc_merge" /\ Len(current_nodes) >= 2) =>
        \A i \in 0..(Len(current_nodes) - 1) :
            ClosestInWindow(i, find_closest_node(current_nodes, i))


\* The values of a sequence
Elements(seq) == {seq[k] : k \in 1..Len(seq)}

\* A round of the merge loop that ran to its std::swap
MergeRoundDone ==
    /\ variant = "ploc"
    /\ pc = "ploc_merge"
    /\ pc' = "ploc_merge"
    /\ current_nodes' # current_nodes

\* The slots of bvh.nodes written by the round (1-based positions)
MergedSlots == (insertion_index' + 1)..insertion_index

\* The nodes of the working sequence that the round wrote to bvh.nodes
MergedNodes == {nodes'[k] : k \in MergedSlots}

\* The nodes of the working sequence that the round copied to the next one
CopiedNodes == Elements(current_nodes') \cap Elements(current_nodes)

\* The parents emitted by the round
EmittedParents == {k \in 1..Len(current_nodes') : current_nodes'[k] \notin Elements(current_nodes)}

\* C24: in every iteration of the PLOC merge loop each node of the working
\* sequence goes to exactly one destination: it is copied unchanged to the
\* next sequence, or it is one of a pair of two different nodes written to
\* two adjacent slots below the cursor, under one parent (prim_count = 0,
\* first_index = the first slot, bbox = the union) emitted to the next
\* sequence; no node is dropped, duplicated, placed under two parents or
\* merged with itself
C24_MergeDestinations ==
    [][MergeRoundDone =>
        /\ MergedNodes \cup CopiedNodes = Elements(current_nodes)
        /\ MergedNodes \cap CopiedNodes = {}
        /\ Cardinality(MergedNodes) = insertion_index - insertion_index'
        /\ Len(current_nodes') = Cardinality(CopiedNodes) + Cardinality(EmittedParents)
        /\ 2 * Cardinality(EmittedParents) = insertion_index - insertion_index'
        /\ \A k \in EmittedParents :
               LET parent == current_nodes'[k]
               IN  /\ parent.prim_count = 0
                   /\ parent.first_index + 1 \in MergedSlots
                   /\ parent.first_index + 2 \in MergedSlots
                   /\ nodes'[parent.first_index + 1] # nodes'[parent.first_index + 2]
                   /\ parent.bbox = Extend(nodes'[parent.first_index + 1].bbox,
                                           nodes'[parent.first_index + 2].bbox)
                   /\ \A l \in EmittedParents :
                          l # k => current_nodes'[l].first_index # parent.first_index
        /\ \A k \in 1..Len(nodes) : k \notin MergedSlots => nodes'[k] = nodes[k]]_vars


\* A mutual nearest-neighbour pair of two different positions of the working
\* sequence
MutualPairs ==
    {p \in (0..(Len(current_nodes) - 1)) \X (0..(Len(current_nodes) - 1)) :
        /\ p[1] < p[2]
        /\ find_closest_node(current_nodes, p[1]) = p[2]
        /\ find_closest_node(current_nodes, p[2]) = p[1]}

\* C25: the PLOC merge loop terminates: in every iteration with at least 2
\* nodes a mutual nearest-neighbour pair exists and is merged, so the
\* iteration ends with a strictly shorter working sequence (and the length
\* reaches 1 after at most N - 1 iterations)
C25_MergeLoopShrinks ==
    [][(variant = "ploc" /\ pc = "ploc_merge" /\ Len(current_nodes) >= 2) =>
        /\ MutualPairs # {}
        /\ pc' = "ploc_merge"
        /\ Len(current_nodes') < Len(current_nodes)]_vars


\* The slots of the node array that hold a leaf
LeafSlots == {i \in 0..(Len(nodes) - 1) : is_leaf(nodes[i + 1])}

\* C26: the node array returned by the PLOC builder for N >= 1 is a full
\* binary tree with exactly 2N - 1 nodes rooted at nodes[0]: every slot is
\* reachable from the root along exactly one path, N slots are leaves with
\* prim_count = 1 and pairwise distinct first_index in 0 .. N - 1, and the
\* other N - 1 slots are internal nodes with two children
C26_PlocFullBinaryTree ==
    (variant = "ploc" /\ Built /\ PrimCount >= 1) =>
        /\ Len(nodes) = 2 * PrimCount - 1
        /\ Reachable = 0..(Len(nodes) - 1)
        /\ SlotsFilled
        /\ \A c \in 0..(Len(nodes) - 1) : 0 \notin ChildSet(c)
        /\ Cardinality(LeafSlots) = PrimCount
        /\ \A i \in LeafSlots : nodes[i + 1].prim_count = 1
        /\ {nodes[i + 1].first_index : i \in LeafSlots} = 0..(PrimCount - 1)
        /\ \A i \in (0..(Len(nodes) - 1)) \ LeafSlots :
               /\ nodes[i + 1].first_index >= 1
               /\ nodes[i + 1].first_index + 1 <= Len(nodes) - 1

\* A PLOC tree of 17 primitives and 33 nodes has been returned
C26_Witness ==
    /\ variant = "ploc"
    /\ pc = "built"
    /\ PrimCount = DeepPrims
    /\ Len(nodes) = 2 * DeepPrims - 1
    /\ Cardinality(LeafSlots) = DeepPrims


\* The node build_recursive is about to process, with the box of its loop
ProcessedNode ==
    [nodes[Head(work) + 1] EXCEPT
        !.bbox = NodeBBox(prim_indices, nodes[Head(work) + 1], nodes[Head(work) + 1].prim_count)]

\* The positions of prim_indices that belong to the processed node
OwnRange == Range(ProcessedNode.first_index, ProcessedNode.prim_count)

\* The bins of find_best_split hold the node's own primitives
BinsCountOwn(axis) ==
    \A b \in 0..(bin_count - 1) :
        FillBins(axis, prim_indices, ProcessedNode, ProcessedNode.prim_count)[b].prim_count =
            Cardinality({k \in OwnRange :
                bin_index(axis, ProcessedNode.bbox, centers[prim_indices[k + 1] + 1]) = b})

\* C27: for every node processed by the SAH builder, nodes with
\* first_index > 0 included, the box loop and find_best_split read exactly
\* prim_indices[first_index .. first_index + prim_count - 1], and each bin's
\* count is the number of the node's own primitives that map to the bin (so
\* the counts sum to prim_count)
C27_SahReadsOwnRange ==
    (variant = "sah" /\ pc = "sah_build" /\ work # <<>> /\ is_leaf(nodes[Head(work) + 1])) =>
        /\ \A i \in 0..(ProcessedNode.prim_count - 1) :
               NodePrimRead(prim_indices, ProcessedNode, i) =
                   prim_indices[ProcessedNode.first_index + i + 1]
        /\ (ProcessedNode.prim_count >= min_prims /\ ~SahUndefined(prim_indices, ProcessedNode)) =>
               \A axis \in 0..2 : BinsCountOwn(axis)


\* The union of the boxes of the primitives of the non-empty set S
RECURSIVE UnionBox(_)
UnionBox(S) ==
    LET p == CHOOSE q \in S : TRUE
    IN  IF S = {p} THEN bboxes[p + 1]
        ELSE CHOOSE r \in {Extend(acc, bboxes[p + 1]) : acc \in {UnionBox(S \ {p})}} : TRUE

\* The primitives of the processed node
OwnPrims == {prim_indices[k + 1] : k \in OwnRange}

\* The primitives of the node that the candidate (axis, right_bin) sends to
\* the left, the bins being those of the box of the node's primitives
CandidateLeft(axis, right_bin) ==
    {p \in OwnPrims : bin_index(axis, UnionBox(OwnPrims), centers[p + 1]) < right_bin}

\* half_area(L) * n_L + half_area(R) * n_R
CandidateCost(L, R) ==
    FAdd(FMul(half_area(UnionBox(L)), F(Cardinality(L))),
         FMul(half_area(UnionBox(R)), F(Cardinality(R))))

\* The candidate has two non-empty sides and costs no more than the leaf
GoodCandidate(axis, right_bin) ==
    /\ \A p \in OwnPrims : ~BinIndexUndefined(axis, UnionBox(OwnPrims), centers[p + 1])
    /\ CandidateLeft(axis, right_bin) \notin {{}, OwnPrims}
    /\ FLe(CandidateCost(CandidateLeft(axis, right_bin),
                         OwnPrims \ CandidateLeft(axis, right_bin)),
           FMul(half_area(UnionBox(OwnPrims)),
                FSub(F(Cardinality(OwnPrims)), F(traversal_cost))))

GoodCandidates ==
    {c \in (0..2) \X (1..(bin_count - 1)) : GoodCandidate(c[1], c[2])}

\* The processed node becomes an internal node whose left child holds the
\* left side of a good candidate
SplitByGoodCandidate ==
    /\ pc' = "sah_build"
    /\ ~is_leaf(nodes'[Head(work) + 1])
    /\ \E c \in GoodCandidates :
           {prim_indices'[k + 1] :
               k \in Range(nodes'[nodes'[Head(work) + 1].first_index + 1].first_index,
                           nodes'[nodes'[Head(work) + 1].first_index + 1].prim_count)} =
               CandidateLeft(c[1], c[2])

\* The boxes of two primitives are apart on some axis
WellSeparated(p, q) ==
    \E a \in 1..3 : \/ FLt(bboxes[p + 1].max[a], bboxes[q + 1].min[a])
                    \/ FLt(bboxes[q + 1].max[a], bboxes[p + 1].min[a])

\* The tree of two primitives is a root with two leaves of one primitive
RootWithTwoLeaves ==
    /\ Len(nodes) = 3
    /\ ~is_leaf(nodes[1])
    /\ \A i \in 1..2 : is_leaf(nodes[i + 1]) /\ nodes[i + 1].prim_count = 1

\* C28: in the SAH builder a node with prim_count >= min_prims is split by
\* bin partition whenever some candidate split with two non-empty sides has
\* a cost half_area(L) * n_L + half_area(R) * n_R not greater than
\* half_area(box of the node's primitives) * (prim_count - traversal_cost);
\* in particular two primitives with well-separated boxes give an internal
\* root with two leaves of one primitive each
C28_SahSplitsWhenCheaper ==
    /\ [][(/\ variant = "sah"
           /\ pc = "sah_build"
           /\ work # <<>>
           /\ is_leaf(nodes[Head(work) + 1])
           /\ nodes[Head(work) + 1].prim_count >= min_prims
           /\ GoodCandidates # {}) => SplitByGoodCandidate]_vars
    /\ [](variant = "sah" /\ Built /\ PrimCount = 2 /\ WellSeparated(0, 1) => RootWithTwoLeaves)



\* build_recursive splits the node it processes
SahSplitStep ==
    /\ variant = "sah"
    /\ pc = "sah_build"
    /\ work # <<>>
    /\ is_leaf(nodes[Head(work) + 1])
    /\ pc' = "sah_build"
    /\ ~is_leaf(nodes'[Head(work) + 1])

\* first_right of the split: where the range of the right child starts
FirstRight == nodes'[nodes'[Head(work) + 1].first_index + 2].first_index

\* The bin of the entry at position k after the split, for the split s
BinAfter(s, k) == bin_index(s.axis, ProcessedNode.bbox, centers[prim_indices'[k + 1] + 1])

\* The centroid coordinate, on the largest axis of the node, of the entry at
\* position k after the split
KeyAfter(k) == centers[prim_indices'[k + 1] + 1][largest_axis(ProcessedNode.bbox) + 1]

\* After a bin partition the indices of the bins below right_bin come first
PartitionedAt(s) ==
    /\ \A k \in OwnRange : k < FirstRight <=> BinAfter(s, k) < s.right_bin
    /\ FirstRight \in ProcessedNode.first_index..(ProcessedNode.first_index + ProcessedNode.prim_count)

\* After a median split the range is in the order of the centroids
SortedAtMedian ==
    /\ \A k \in OwnRange :
           (k + 1) \in OwnRange => FLe(KeyAfter(k), KeyAfter(k + 1))
    /\ FirstRight = ProcessedNode.first_index + (ProcessedNode.prim_count \div 2)

ValidAxes == {i \in 1..3 : SplitValid(call.splits[i])}

\* The number of primitives in the bins lo .. hi of the split call
PrimsInBins(lo, hi) == {b \in lo..hi : call.bins[b].prim_count > 0}

\* C30: find_best_split never returns a valid split (right_bin # 0) for which
\* the bins [0, right_bin) hold no primitive or the bins [right_bin,
\* bin_count) hold no primitive; and when the best split of the three axes is
\* selected with std::min and Split::operator <, a split with right_bin = 0
\* never replaces or beats a valid one, and on equal costs the first axis of
\* minimal cost is kept
C30_SplitSentinel ==
    /\ (pc = "returned_split" /\ SplitValid(call.split)) =>
           /\ PrimsInBins(0, call.split.right_bin - 1) # {}
           /\ PrimsInBins(call.split.right_bin, bin_count - 1) # {}
    /\ pc = "returned_min" =>
           IF ValidAxes = {}
           THEN ~SplitValid(call.min_split)
           ELSE \E i \in ValidAxes :
                    /\ call.min_split = call.splits[i]
                    /\ \A j \in ValidAxes :
                           /\ ~FLt(call.splits[j].cost, call.min_split.cost)
                           /\ j < i => FLt(call.min_split.cost, call.splits[j].cost)

\* std::min was given an invalid split for axis 0 and two valid splits of the
\* same cost for the axes 1 and 2, and kept the split of axis 1
C30_Witness ==
    /\ pc = "returned_min"
    /\ ~SplitValid(call.splits[1])
    /\ SplitValid(call.splits[2])
    /\ SplitValid(call.splits[3])
    /\ FEq(call.splits[2].cost, call.splits[3].cost)
    /\ call.min_split = call.splits[2]

===========================================================================
